---------------------------- MODULE Spec2Model ----------------------------
(***************************************************************************)
(* MAP-Elites search over weekly exercise schedules.                       *)
(*                                                                         *)
(* Objects are modelled as Python keeps them: Gene objects live in a heap  *)
(* (genes) and a Chromosome / Schedule holds a list of references to them, *)
(* so that two lists can hold the same Gene object.  Exercise objects are  *)
(* value snapshots of a Gene taken when a Schedule is decoded.             *)
(*                                                                         *)
(* Numbers: MET values are kept in tenths (met10), weights in grams and    *)
(* fitness in hundredths of a kilogram, so that the float arithmetic of    *)
(* the source becomes integer arithmetic (TLC has no reals).  Means and    *)
(* the bin formula are computed on exact fractions.                        *)
(***************************************************************************)
EXTENDS Integers, Sequences, FiniteSets, TLC

VARIABLES
    config,            \* the Config object (fields as a record)
    genes,             \* heap of Gene objects: reference -> [exercise_index, duration, base10_schedule]
    chroms,            \* Chromosome objects held outside the archive: name -> list of Gene references
    map_X,             \* MapElites._map_X: cell -> Schedule object or None
    map_P,             \* MapElites._map_P: cell -> stored fitness (hundredths) or the -1 sentinel
    data_points,       \* MapElites._data_points: list of coordinate triples
    i,                 \* loop counter of MapElites.run
    elements_skipped,  \* local counter of MapElites.run
    run_args,          \* arguments of MapElites.run: [init_times, total_evals]
    pc,                \* where the modelled program is
    steps,             \* number of operations applied so far, where a specification bounds it
    last               \* what the last operation did (observation only, never read by an operation)

vars == <<config, genes, chroms, map_X, map_P, data_points, i, elements_skipped, run_args, pc, steps, last>>

\* Python's None where an object is expected
None == [none |-> TRUE]

---------------------------------------------------------------------------
(* Bounds of the model *)

\* largest number of 15-minute steps a bound passed to a Config range setter takes
MaxSetterSteps == 3
\* number of weekly masks the random source yields in the specifications that sample it
MaskSamples == 2
\* number of mutate() calls applied to a Chromosome and its copy
MaxMutateCalls == 2
\* largest total_evals handed to MapElites.run
MaxEvals == 3
\* number of initial Chromosomes the random source is sampled at in MapElites.run
InitSamples == 4
\* the legal weekly masks the Schedule specification samples
SchedMaskSamples == 4
\* the longest Chromosome the Schedule specification starts from
MaxSchedGenes == 2
\* the longest period, in weeks, of the Schedule specification
MaxPeriod == 2
\* the Schedule constructions of the Schedule specification
MaxDecodes == 2
\* the setter calls made on one Config in the Config specification
MaxSetterCalls == 2

---------------------------------------------------------------------------
(* Python helpers *)

\* a Python range object
Range(start, stop, step) == [start |-> start, stop |-> stop, step |-> step]

\* the members of a range with a positive step
RangeElems(r) ==
    IF r.stop <= r.start THEN {}
    ELSE {r.start + k * r.step : k \in 0..((r.stop - 1 - r.start) \div r.step)}

\* int(n / d) for d > 0: truncation toward zero
TruncDiv(n, d) == IF n >= 0 THEN n \div d ELSE -((-n) \div d)

Max(S) == CHOOSE m \in S : \A n \in S : n <= m

---------------------------------------------------------------------------
(* defaults.py *)

MAX_EXERCISES_PER_SCHEDULE == 10
MAX_DAILY_EXERCISE_COUNT == 10
MAX_EXERCISE_DURATION == 720
MAX_DAILY_DURATION == 480
MAX_BASE_10_SCHEDULE == 127
MIN_DAILY_DURATION == 0
MIN_BASE_10_SCHEDULE == 1

Defaults_exercise_duration_range == Range(15, MAX_EXERCISE_DURATION + 1, 15)
Defaults_daily_duration_range == Range(MIN_DAILY_DURATION, MAX_DAILY_DURATION + 1, 1)
Defaults_base10_schedule_range == Range(MIN_BASE_10_SCHEDULE, MAX_BASE_10_SCHEDULE + 1, 1)

---------------------------------------------------------------------------
(* exercise_repository.py: the catalogue is a list of MET values (tenths)  *)

\* ExerciseRepository.size
Repo_size(repo) == Len(repo)

\* ExerciseRepository.item_at(index)['met'], in tenths
Repo_met10(repo, index) == repo[index + 1]

\* math.floor / math.ceil of a value given in tenths
Floor10(v10) == v10 \div 10
Ceil10(v10) == (v10 + 9) \div 10

\* ExerciseRepository.met_range
Repo_met_range(repo) ==
    LET mets == {repo[k] : k \in 1..Len(repo)}
        lo == CHOOSE m \in mets : \A n \in mets : m <= n
    IN  Range(Floor10(lo), Ceil10(Max(mets)), 1)

---------------------------------------------------------------------------
(* configurations.py *)

\* Config.__init__ for a loaded catalogue `repo`, user parameters in grams / weeks
Config_init(repo, init_weight, target_weight, period, bins) ==
    [ repo                    |-> repo,
      bins                    |-> bins,
      init_weight             |-> init_weight,
      target_weight           |-> target_weight,
      period                  |-> period,
      exercise_index_range    |-> Range(0, Repo_size(repo), 1),
      exercise_duration_range |-> Defaults_exercise_duration_range,
      daily_duration_range    |-> Defaults_daily_duration_range,
      mutation_rate           |-> 70,
      alter_rate              |-> 60,
      add_rate                |-> 20,
      delete_rate             |-> 20 ]

\* Config._range_check for integer arguments: TRUE iff no ValueError is raised
Config_range_check(lo, hi, step) ==
    /\ ~(hi <= lo)
    /\ ~(lo % step # 0 \/ hi % step # 0)

\* Config.set_exercise_duration_range: the configuration after the call
Config_set_exercise_duration_range(cfg, lo, hi) ==
    IF Config_range_check(lo, hi, 15)
    THEN [cfg EXCEPT !.exercise_duration_range = Range(lo, hi + 1, 15)]
    ELSE cfg

\* Config.set_daily_duration_range: the configuration after the call
Config_set_daily_duration_range(cfg, lo, hi) ==
    IF Config_range_check(lo, hi, 15)
    THEN [cfg EXCEPT !.daily_duration_range = Range(lo, hi + 1, 15)]
    ELSE cfg

---------------------------------------------------------------------------
(* gene.py *)

Gene(exercise_index, duration, base10_schedule) ==
    [exercise_index |-> exercise_index, duration |-> duration,
     base10_schedule |-> base10_schedule]

\* the integers the random source is sampled at when a weekly mask is drawn: the two
\* neighbours of the legal range and MaskSamples members of it (Gene._random_schedule
\* keeps those that lie in the range)
MaskSeq == <<64, 127, 85, 1, 42, 96, 3, 8>>
SampleMasks == {0, 128} \cup {MaskSeq[k] : k \in 1..MaskSamples}

\* Gene._random_index: the values rnd.choice can return
Gene_random_index(cfg) == RangeElems(cfg.exercise_index_range)

\* Gene._random_duration
Gene_random_duration(cfg) == RangeElems(cfg.exercise_duration_range)

\* Gene._random_schedule, `masks` being what the random source yields
Gene_random_schedule(masks) == RangeElems(Defaults_base10_schedule_range) \cap masks

\* Gene.__init__ with other = None: the Genes it can construct
Gene_new(cfg, masks) ==
    { Gene(x, d, m) : x \in Gene_random_index(cfg),
                      d \in Gene_random_duration(cfg),
                      m \in Gene_random_schedule(masks) }

\* Gene.to_list
Gene_to_list(g) == <<g.exercise_index, g.duration, g.base10_schedule>>

\* Defaults.WEEK
WEEK == <<"Monday", "Tuesday", "Wednesday", "Thursday", "Friday", "Saturday", "Sunday">>

RECURSIVE DaysFrom(_, _)
\* the loop of Gene._schedule_to_week_days from position n on, for the 7 characters
\* base2_schedule
DaysFrom(base2_schedule, n) ==
    IF n > 7 THEN <<>>
    ELSE IF base2_schedule[n] = 1
         THEN <<WEEK[n]>> \o DaysFrom(base2_schedule, n + 1)
         ELSE DaysFrom(base2_schedule, n + 1)

\* a variant of Gene.alter in which a redraw of the exercise index also redraws the
\* duration; Thm_C10 does not hold of it
Gene_alter_field_two(g, cfg, masks, param_index) ==
    CASE param_index = 0 ->
            { [g EXCEPT !.exercise_index = x, !.duration = d]
                : x \in Gene_random_index(cfg), d \in Gene_random_duration(cfg) }
      [] param_index = 1 ->
            { [g EXCEPT !.duration = d] : d \in Gene_random_duration(cfg) }
      [] param_index = 2 ->
            { [g EXCEPT !.base10_schedule = m] : m \in Gene_random_schedule(masks) }

\* Gene.alter for the drawn param_index: the Genes the call can leave behind
Gene_alter_field(g, cfg, masks, param_index) ==
    CASE param_index = 0 ->
            { [g EXCEPT !.exercise_index = x] : x \in Gene_random_index(cfg) }
      [] param_index = 1 ->
            { [g EXCEPT !.duration = d] : d \in Gene_random_duration(cfg) }
      [] param_index = 2 ->
            { [g EXCEPT !.base10_schedule = m] : m \in Gene_random_schedule(masks) }

\* Gene.alter: rnd.choice over range(len(to_list()))
Gene_alter(g, cfg, masks) ==
    UNION { Gene_alter_field(g, cfg, masks, p) : p \in 0..(Len(Gene_to_list(g)) - 1) }

---------------------------------------------------------------------------
(* The heap of Gene objects.  A reference is a positive integer; which     *)
(* integer names an object is not observable in Python, so after every     *)
(* operation the live objects are renumbered in the order in which the     *)
(* roots reach them, and unreachable objects are dropped (garbage).        *)

\* a fresh reference
Alloc(h) == CHOOSE r \in 1..(Cardinality(DOMAIN h) + 1) : r \notin DOMAIN h

\* the heap with a new object in it
HeapPut(h, r, g) == [x \in (DOMAIN h) \cup {r} |-> IF x = r THEN g ELSE h[x]]

RECURSIVE FirstSeen(_, _)
\* the references of list `refs` in order of first occurrence, after those of `seen`
FirstSeen(seen, refs) ==
    IF refs = <<>> THEN seen
    ELSE IF \E k \in 1..Len(seen) : seen[k] = Head(refs)
         THEN FirstSeen(seen, Tail(refs))
         ELSE FirstSeen(Append(seen, Head(refs)), Tail(refs))

RECURSIVE Flatten(_)
Flatten(lists) == IF lists = <<>> THEN <<>> ELSE Head(lists) \o Flatten(Tail(lists))

\* the new name of each live reference, for the root lists `lists`
Renaming(lists) ==
    LET order == FirstSeen(<<>>, Flatten(lists))
    IN  [r \in {order[k] : k \in 1..Len(order)} |->
            CHOOSE k \in 1..Len(order) : order[k] = r]

RenameList(ren, refs) == [k \in 1..Len(refs) |-> ren[refs[k]]]

RenameHeap(ren, h) ==
    [n \in {ren[r] : r \in DOMAIN ren} |-> h[CHOOSE r \in DOMAIN ren : ren[r] = n]]

---------------------------------------------------------------------------
(* chromosome.py: a Chromosome is its list _chromosome of Gene references; *)
(* every operation maps a heap h and a list c to the set of outcomes       *)
(* [h, c, did] the random draws allow                                      *)

Outcome(h, c, did) == [h |-> h, c |-> c, did |-> did]

RECURSIVE Chromosome_generate(_, _, _, _)
\* Chromosome._generate(size): `size` fresh random Genes appended to c; draws[k] is
\* the set of Genes that Gene(self._config) can return at the k-th call
Chromosome_generate(h, c, draws, size) ==
    IF size = 0 THEN {Outcome(h, c, "generate")}
    ELSE UNION { Chromosome_generate(HeapPut(h, Alloc(h), g), Append(c, Alloc(h)),
                                     draws, size - 1) : g \in draws[Len(c) + 1] }

\* Chromosome.genotype_to_list('shallow'): a new list of the same Gene objects
Chromosome_genotype_to_list(c) == [k \in 1..Len(c) |-> c[k]]

\* Chromosome.__init__ with other = None, the random source unconstrained
Chromosome_new(h, cfg, masks) ==
    Chromosome_generate(h, <<>>, [k \in 1..5 |-> Gene_new(cfg, masks)], 5)

\* Chromosome.__init__ with other = None, the random source yielding the Genes of
\* `sample` (a list of 5 Gene values) where the configured ranges allow them
Chromosome_new_sampled(h, cfg, masks, sample) ==
    Chromosome_generate(h, <<>>, [k \in 1..5 |-> Gene_new(cfg, masks) \cap {sample[k]}], 5)

\* Chromosome.__init__ with another Chromosome: the list the new object holds
Chromosome_copy(other) == Chromosome_genotype_to_list(other)

\* Chromosome._probability_pool, as the set of its members
Chromosome_probability_pool(cfg) ==
    {0 : k \in 1..cfg.alter_rate} \cup {1 : k \in 1..cfg.add_rate}
        \cup {2 : k \in 1..cfg.delete_rate}

\* Chromosome.size
Chromosome_size(c) == Len(c)

\* Chromosome._alter
Chromosome_alter(h, c, cfg, masks) ==
    UNION { { Outcome([h EXCEPT ![Chromosome_genotype_to_list(c)[index]] = g], c, "alter")
                : g \in Gene_alter(h[Chromosome_genotype_to_list(c)[index]], cfg, masks) }
            : index \in 1..Len(Chromosome_genotype_to_list(c)) }

\* a variant of Chromosome._add that inserts the new Gene at the head of the list;
\* Thm_C30 does not hold of it
Chromosome_add_front(h, c, cfg, masks) ==
    IF Chromosome_size(c) < MAX_EXERCISES_PER_SCHEDULE
    THEN { Outcome(HeapPut(h, Alloc(h), g), <<Alloc(h)>> \o c, "add")
             : g \in Gene_new(cfg, masks) }
    ELSE { Outcome(h, c, "add") }

\* Chromosome._add
Chromosome_add(h, c, cfg, masks) ==
    IF Chromosome_size(c) < MAX_EXERCISES_PER_SCHEDULE
    THEN { Outcome(HeapPut(h, Alloc(h), g), Append(c, Alloc(h)), "add")
             : g \in Gene_new(cfg, masks) }
    ELSE { Outcome(h, c, "add") }

\* list.remove(x): the list without its first member equal to x
ListRemove(c, x) ==
    LET at == CHOOSE k \in 1..Len(c) : c[k] = x /\ \A j \in 1..(k - 1) : c[j] # x
    IN  [k \in 1..(Len(c) - 1) |-> IF k < at THEN c[k] ELSE c[k + 1]]

\* a variant of Chromosome._delete without the test `size > 1`; Thm_C8 does not hold
\* of it
Chromosome_delete_unguarded(h, c) ==
    { Outcome(h, ListRemove(c, c[gene_index]), "delete")
        : gene_index \in 1..Chromosome_size(c) }

\* Chromosome._delete
Chromosome_delete(h, c) ==
    { IF Chromosome_size(c) > 1
      THEN Outcome(h, ListRemove(c, c[gene_index]), "delete")
      ELSE Outcome(h, c, "delete")
        : gene_index \in 1..Chromosome_size(c) }

\* the draws of `chance` (in hundredths) in Chromosome.mutate
ChanceDraws == 0..99

\* the test `chance <= self._mutation_rate` of Chromosome.mutate
Chromosome_mutate_applies(cfg, chance) == chance <= cfg.mutation_rate

\* Chromosome.mutate
Chromosome_mutate(h, c, cfg, masks) ==
    UNION { IF applies
            THEN UNION { CASE sub_mutation_index = 0 -> Chromosome_alter(h, c, cfg, masks)
                           [] sub_mutation_index = 1 -> Chromosome_add(h, c, cfg, masks)
                           [] sub_mutation_index = 2 -> Chromosome_delete(h, c)
                         : sub_mutation_index \in Chromosome_probability_pool(cfg) }
            ELSE { Outcome(h, c, "none") }
          : applies \in { Chromosome_mutate_applies(cfg, chance) : chance \in ChanceDraws } }

\* the field values of the Genes a list refers to, in order
GeneValues(h, c) == [k \in 1..Len(c) |-> h[c[k]]]

---------------------------------------------------------------------------
(* exercise.py: an Exercise is a Gene constructed from another Gene (the   *)
(* three fields are copied) plus the catalogue row of its index; of the    *)
(* row only the MET value is modelled                                      *)

\* Exercise.__init__ / Exercise._update_exercise
Exercise(g, cfg) ==
    [exercise_index  |-> g.exercise_index,
     duration        |-> g.duration,
     base10_schedule |-> g.base10_schedule,
     met10           |-> Repo_met10(cfg.repo, g.exercise_index)]

\* a variant of Gene.schedule_to_base(2) that writes the least significant bit first;
\* Thm_C19 does not hold of it
Gene_schedule_to_base2_lsb(m) == [k \in 1..7 |-> (m \div (2 ^ (k - 1))) % 2]

\* Gene.schedule_to_base(2): format(m, '07b') as the list of its 7 characters (0 / 1),
\* leftmost first
Gene_schedule_to_base2(m) == [k \in 1..7 |-> (m \div (2 ^ (7 - k))) % 2]

RECURSIVE SumSeq(_)
SumSeq(q) == IF q = <<>> THEN 0 ELSE Head(q) + SumSeq(Tail(q))

\* Exercise.frequency
Exercise_frequency(e) == SumSeq(Gene_schedule_to_base2(e.base10_schedule))

---------------------------------------------------------------------------
(* weight_loss_difference.py, in integers: weights in grams, MET in tenths *)

\* a variant of the weight update that leaves the current weight out of the product
\* (a loss per kilogram); Thm_C18 does not hold of it
WeightLoss_per_kg(e, w) == (13 * e.met10 * 1000 * (e.duration \div 15)) \div 4000000

\* WeightLossDifference._weight_loss: (0.00013 * met * w * duration) / 60, in grams
\* (0.00013 / 60 = 13 / 6000000, a tenth of it per tenth of MET, and duration = 15 * d)
WeightLoss(e, w) == (13 * e.met10 * w * (e.duration \div 15)) \div 4000000

RECURSIVE WeightAfterDay(_, _, _)
\* the inner loop `for exercise in day`: day is a list of positions in exercises
WeightAfterDay(exercises, day, w) ==
    IF day = <<>> THEN w
    ELSE WeightAfterDay(exercises, Tail(day), w - WeightLoss(exercises[Head(day)], w))

RECURSIVE WeightAfterWeek(_, _, _)
\* the loop `for day in self._schedule`
WeightAfterWeek(exercises, week, w) ==
    IF week = <<>> THEN w
    ELSE WeightAfterWeek(exercises, Tail(week), WeightAfterDay(exercises, Head(week), w))

RECURSIVE WeightAfterWeeks(_, _, _, _)
\* the loop `for i in range(self._P)`
WeightAfterWeeks(exercises, week, w, weeks) ==
    IF weeks <= 0 THEN w
    ELSE WeightAfterWeeks(exercises, week, WeightAfterWeek(exercises, week, w), weeks - 1)

\* WeightLossDifference._final_weight
FinalWeight(cfg, exercises, week) ==
    WeightAfterWeeks(exercises, week, cfg.init_weight, cfg.period)

Abs(x) == IF x < 0 THEN -x ELSE x

\* round(x, 2) of a non-negative weight in grams, in hundredths of a kilogram
\* (ties to the even neighbour)
Round2(grams) ==
    LET q == grams \div 10
        r == grams % 10
    IN  IF r < 5 THEN q
        ELSE IF r > 5 THEN q + 1
        ELSE IF q % 2 = 0 THEN q ELSE q + 1

\* a variant of the objective without abs(): the signed difference; Thm_C35 does not hold
\* of it
WeightLossDifference_signed(cfg, exercises, week) ==
    Round2(cfg.target_weight - FinalWeight(cfg, exercises, week))

\* WeightLossDifference._delta / run
WeightLossDifference(cfg, exercises, week) ==
    Round2(Abs(cfg.target_weight - FinalWeight(cfg, exercises, week)))

---------------------------------------------------------------------------
(* schedule.py: a Schedule is a Chromosome (its list of Gene references)   *)
(* with the decoded fields.  The weekday buckets hold references to the    *)
(* Exercise objects of _exercises: positions in that list.                 *)

\* a variant of Schedule._decode with hidden state: every second construction reads the
\* genes in reverse; Thm_C14 does not hold of it
Schedule_decode_stateful(h, c, cfg) ==
    [k \in 1..Len(c) |->
        Exercise(h[c[IF steps % 2 = 0 THEN k ELSE Len(c) + 1 - k]], cfg)]

\* Schedule._decode
Schedule_decode(h, c, cfg) ==
    [k \in 1..Len(Chromosome_genotype_to_list(c)) |->
        Exercise(h[Chromosome_genotype_to_list(c)[k]], cfg)]

RECURSIVE Schedule_bucket(_, _, _)
\* one weekday of Schedule._make_schedule: the exercises from position k on whose
\* character for day `day` (1..7) is 1, in list order
Schedule_bucket(exercises, day, k) ==
    IF k > Len(exercises) THEN <<>>
    ELSE IF Gene_schedule_to_base2(exercises[k].base10_schedule)[day] = 1
         THEN <<k>> \o Schedule_bucket(exercises, day, k + 1)
         ELSE Schedule_bucket(exercises, day, k + 1)

\* a variant of Schedule._make_schedule that puts each Exercise at the front of its
\* weekday buckets; Thm_C29 does not hold of it
Schedule_make_schedule_front(exercises) ==
    [day \in 1..7 |->
        LET bucket == Schedule_bucket(exercises, day, 1)
        IN  [j \in 1..Len(bucket) |-> bucket[Len(bucket) + 1 - j]]]

\* Schedule._make_schedule
Schedule_make_schedule(exercises) == [day \in 1..7 |-> Schedule_bucket(exercises, day, 1)]

\* a variant of Schedule._merge_binary_schedules that sets a day only if every
\* Exercise has it; Thm_C15 does not hold of it
Schedule_merge_binary_schedules_all(exercises) ==
    [day \in 1..7 |->
        IF \A k \in 1..Len(exercises) :
              Gene_schedule_to_base2(exercises[k].base10_schedule)[day] = 1
        THEN 1 ELSE 0]

\* Schedule._merge_binary_schedules
Schedule_merge_binary_schedules(exercises) ==
    [day \in 1..7 |->
        IF \E k \in 1..Len(exercises) :
              Gene_schedule_to_base2(exercises[k].base10_schedule)[day] = 1
        THEN 1 ELSE 0]

\* Schedule.__init__: the object built from the list c of Chromosome `chromosome`
Schedule(h, c, cfg) ==
    LET exercises == Schedule_decode(h, Chromosome_copy(c), cfg)
        week == Schedule_make_schedule(exercises)
    IN  [ chromosome       |-> Chromosome_copy(c),
          exercises        |-> exercises,
          schedule_as_list |-> week,
          base2_schedule   |-> Schedule_merge_binary_schedules(exercises),
          fitness          |-> WeightLossDifference(cfg, exercises, week) ]

\* max_row_length of Schedule._fill_and_return_matrix
MaxRowLength(week) == Max({Len(week[day]) : day \in 1..7})

\* the occurrences of the week as one list of positions in exercises
Occurrences(week) == Flatten(week)

\* a fraction num / den with den > 0
Frac(num, den) == [num |-> num, den |-> den]

\* a variant of Schedule.features whose third descriptor is the popcount of the merged
\* weekly mask; Thm_C28 does not hold of it
Schedule_features_merged(x) ==
    LET occ == Occurrences(x.schedule_as_list)
        cells == 7 * MaxRowLength(x.schedule_as_list)
    IN  << Frac(SumSeq([k \in 1..Len(occ) |-> x.exercises[occ[k]].met10]), 10 * cells),
           Frac(SumSeq([k \in 1..Len(occ) |-> x.exercises[occ[k]].duration]), cells),
           Frac(SumSeq(x.base2_schedule), 1) >>

\* Schedule.features: (np.mean(mets()), np.mean(durations()), np.mean(frequencies()));
\* mets() and durations() are 7 x max_row_length matrices, short rows filled with 0
Schedule_features(x) ==
    LET occ == Occurrences(x.schedule_as_list)
        cells == 7 * MaxRowLength(x.schedule_as_list)
    IN  << Frac(SumSeq([k \in 1..Len(occ) |-> x.exercises[occ[k]].met10]), 10 * cells),
           Frac(SumSeq([k \in 1..Len(occ) |-> x.exercises[occ[k]].duration]), cells),
           Frac(SumSeq([k \in 1..Len(x.exercises) |-> Exercise_frequency(x.exercises[k])]),
                Len(x.exercises)) >>

\* Schedule.fitness
Schedule_fitness(x) == x.fitness

---------------------------------------------------------------------------
(* map_elites.py *)

\* the three ranges of MapElites._scale_features
FeatureRanges(cfg) ==
    << Repo_met_range(cfg.repo), cfg.daily_duration_range, Range(0, 8, 1) >>

\* a variant of the scaling whose bin width is (r_max - r_min) / b, without the `+ 1`;
\* Thm_C39 does not hold of it
ScaleFeature_tight(r, rng, b) ==
    LET r_min == rng.start
        r_max == rng.stop
        delta == r_max - r_min
    IN  TruncDiv((r.num - r_min * r.den) * b, r.den * delta) + 1

\* one component of MapElites._scale_features for the raw value r = num / den:
\* delta = (r_max + 1) - r_min, c = delta / b, s = int((r - r_min) / c) + 1
ScaleFeature(r, rng, b) ==
    LET r_min == rng.start
        r_max == rng.stop
        delta == (r_max + 1) - r_min
    IN  TruncDiv((r.num - r_min * r.den) * b, r.den * delta) + 1

\* MapElites._scale_features
MapElites_scale_features(raw_features, cfg) ==
    [n \in 1..Len(raw_features) |->
        ScaleFeature(raw_features[n], FeatureRanges(cfg)[n], cfg.bins)]

\* the cells of a bins x bins x bins array
Cells(b) == (0..(b - 1)) \X (0..(b - 1)) \X (0..(b - 1))

\* numpy indexing of an axis of length b: no IndexError iff -b <= j < b
IndexOk(j, b) == -b <= j /\ j < b

\* the position a legal index addresses (negative indices count from the end)
AxisPos(j, b) == IF j < 0 THEN j + b ELSE j

\* whether arr[j][k][l] raises no IndexError
InBounds(dp, b) == \A n \in 1..3 : IndexOk(dp[n], b)

\* the cell arr[j][k][l] addresses
CellOf(dp, b) == <<AxisPos(dp[1], b), AxisPos(dp[2], b), AxisPos(dp[3], b)>>

\* MapElites.__init__
MapElites_init_map_X(cfg) == [cell \in Cells(cfg.bins) |-> None]
MapElites_init_map_P(cfg) == [cell \in Cells(cfg.bins) |-> -1]

\* a variant of the acceptance test in which a candidate that ties with the incumbent
\* is accepted; Thm_C1 does not hold of it
Accepts_ties(curr_x, p) == curr_x < 0 \/ curr_x >= p

\* a variant of the acceptance test with the comparison turned round; Thm_C2 does not
\* hold of it
Accepts_worse(curr_x, p) == curr_x < 0 \/ curr_x < p

\* the test `curr_x < 0 or curr_x > p` of MapElites.run
Accepts(curr_x, p) == curr_x < 0 \/ curr_x > p

\* a variant of the registration that appends the coordinate with its first two
\* components exchanged; Thm_C6 does not hold of it
RegisterPoint_swapped(dps, dp) == Append(dps, <<dp[2], dp[1], dp[3]>>)

\* self._data_points.append(dp)
RegisterPoint(dps, dp) == Append(dps, dp)

---------------------------------------------------------------------------
(* Values of the variables a specification does not use *)

NoArchive ==
    /\ map_X = <<>>
    /\ map_P = <<>>
    /\ data_points = <<>>
    /\ i = 0
    /\ elements_skipped = 0
    /\ run_args = <<>>

ArchiveUnchanged == UNCHANGED <<map_X, map_P, data_points, i, elements_skipped, run_args>>

---------------------------------------------------------------------------
(* SpecGene: one Config, one Gene constructed from it, then altered        *)

\* catalogue used by the Gene and Chromosome specifications (MET 2.5 and 8.0)
SmallRepo == <<25, 80>>

\* bounds handed to a setter: multiples of 15 from -15 up, and one non-multiple
SetterInputs == {15 * k : k \in (-1)..MaxSetterSteps} \cup {20}

InitGene ==
    /\ config = Config_init(SmallRepo, 80000, 75000, 1, 2)
    /\ genes = <<>>
    /\ chroms = <<>>
    /\ NoArchive
    /\ pc = "config"
    /\ steps = 0
    /\ last = [op |-> "init"]

\* a call of Config.set_exercise_duration_range that returns
SetDurationAccepted ==
    /\ pc = "config"
    /\ \E lo \in SetterInputs, hi \in SetterInputs :
          /\ Config_range_check(lo, hi, 15)
          /\ config' = Config_set_exercise_duration_range(config, lo, hi)
          /\ last' = [op |-> "set_ok", lo |-> lo, hi |-> hi]
    /\ UNCHANGED <<genes, chroms, pc, steps>>
    /\ ArchiveUnchanged

\* a call of Config.set_exercise_duration_range that raises ValueError
SetDurationRejected ==
    /\ pc = "config"
    /\ \E lo \in SetterInputs, hi \in SetterInputs :
          /\ ~Config_range_check(lo, hi, 15)
          /\ config' = Config_set_exercise_duration_range(config, lo, hi)
          /\ last' = [op |-> "set_err", lo |-> lo, hi |-> hi]
    /\ UNCHANGED <<genes, chroms, pc, steps>>
    /\ ArchiveUnchanged

\* Gene(config)
GeneConstruct ==
    /\ pc = "config"
    /\ \E g \in Gene_new(config, SampleMasks) :
          /\ genes' = (1 :> g)
          /\ last' = [op |-> "gene"]
    /\ pc' = "gene"
    /\ UNCHANGED <<config, chroms, steps>>
    /\ ArchiveUnchanged

\* gene.alter()
GeneAlter ==
    /\ pc = "gene"
    /\ \E p \in 0..(Len(Gene_to_list(genes[1])) - 1) :
          \E g \in Gene_alter_field(genes[1], config, SampleMasks, p) :
              /\ genes' = (1 :> g)
              /\ last' = [op |-> "alter", param_index |-> p, changed |-> g # genes[1]]
    /\ UNCHANGED <<config, chroms, pc, steps>>
    /\ ArchiveUnchanged

NextGene == SetDurationAccepted \/ SetDurationRejected \/ GeneConstruct \/ GeneAlter

SpecGene == InitGene /\ [][NextGene]_vars

\* the fields of the one Gene, as Gene.to_list orders them, that differ across a step
FieldsChanged ==
    { f \in 1..3 : Gene_to_list(genes'[1])[f] # Gene_to_list(genes[1])[f] }

\* C9, as stated: every Gene constructed from a configuration the setters accepted has
\* its exercise index in [0, catalogue size), a duration that is a positive multiple of
\* 15 within the configured bounds, and a weekly mask in [1, 127]
Orig_C9 ==
    pc = "gene" =>
        /\ genes[1].exercise_index \in 0..(Repo_size(config.repo) - 1)
        /\ genes[1].duration > 0
        /\ genes[1].duration % 15 = 0
        /\ genes[1].duration \in RangeElems(config.exercise_duration_range)
        /\ genes[1].base10_schedule \in MIN_BASE_10_SCHEDULE..MAX_BASE_10_SCHEDULE

\* C10, as stated: a call of Gene.alter() changes exactly one of the three fields
Orig_C10 ==
    [][(pc = "gene" /\ last'.op = "alter") => Cardinality(FieldsChanged) = 1]_vars

\* C10, amended: a call of Gene.alter() redraws the one field its param_index selects,
\* from that field's range, and leaves the other two as they were; the redrawn field
\* may come out equal to its old value, so at most one field changes
Thm_C10 ==
    [][(pc = "gene" /\ last'.op = "alter") =>
          /\ FieldsChanged \subseteq {last'.param_index + 1}
          /\ genes'[1].exercise_index \in Gene_random_index(config)
          /\ genes'[1].duration \in Gene_random_duration(config) \cup {genes[1].duration}
          /\ genes'[1].base10_schedule \in MIN_BASE_10_SCHEDULE..MAX_BASE_10_SCHEDULE]_vars

\* an alter() call has returned and the field it redrew kept its value
Witness_C10 == pc = "gene" /\ last.op = "alter" /\ ~last.changed

---------------------------------------------------------------------------
(* SpecChrom: one Chromosome, constructed and then mutated any number of   *)
(* times.  SpecCopy: a Chromosome, a second one constructed from it, and   *)
(* mutate() calls on either.                                               *)

\* a one-entry catalogue (MET 5.0)
OneRepo == <<50>>

\* the random source sampled at one legal weekly mask
OneMask == {0, 128, MaskSeq[1]}

\* Config(80, 75, 1) over the one-entry catalogue after set_exercise_duration_range(15, 30)
ChromConfig ==
    Config_set_exercise_duration_range(Config_init(OneRepo, 80000, 75000, 1, 1), 15, 30)

InitChrom ==
    /\ config = ChromConfig
    /\ genes = <<>>
    /\ chroms = <<>>
    /\ NoArchive
    /\ pc = "start"
    /\ steps = 0
    /\ last = [op |-> "init"]

\* the named Chromosome objects, as the roots of the heap, in a fixed order
ChromRoots(cs) ==
    IF "b" \in DOMAIN cs THEN <<cs["a"], cs["b"]>> ELSE <<cs["a"]>>

\* the heap and the Chromosome objects after an operation left heap h and objects cs
StoreChroms(h, cs) ==
    LET ren == Renaming(ChromRoots(cs))
    IN  /\ genes' = RenameHeap(ren, h)
        /\ chroms' = [n \in DOMAIN cs |-> RenameList(ren, cs[n])]

\* a = Chromosome(config)
ChromConstruct ==
    /\ pc = "start"
    /\ \E o \in Chromosome_new(genes, config, OneMask) :
          StoreChroms(o.h, [a |-> o.c])
    /\ pc' = "built"
    /\ last' = [op |-> "construct"]
    /\ UNCHANGED <<config, steps>>
    /\ ArchiveUnchanged

\* b = Chromosome(config, other=a)
ChromCopyConstruct ==
    /\ pc = "built"
    /\ StoreChroms(genes, [a |-> chroms["a"], b |-> Chromosome_copy(chroms["a"])])
    /\ pc' = "copied"
    /\ last' = [op |-> "copy"]
    /\ UNCHANGED <<config, steps>>
    /\ ArchiveUnchanged

\* the Chromosome objects with the list of object `name` replaced
WithList(cs, name, c) == [n \in DOMAIN cs |-> IF n = name THEN c ELSE cs[n]]

\* name.mutate()
MutateCall(name) ==
    \E o \in Chromosome_mutate(genes, chroms[name], config, OneMask) :
        /\ StoreChroms(o.h, WithList(chroms, name, o.c))
        /\ last' = [op |-> "mutate", on |-> name, did |-> o.did,
                    size_before |-> Chromosome_size(chroms[name])]

\* a.mutate(), any number of times
ChromMutate ==
    /\ pc = "built"
    /\ MutateCall("a")
    /\ UNCHANGED <<config, pc, steps>>
    /\ ArchiveUnchanged

\* a.mutate() or b.mutate() once the copy exists
CopyMutate ==
    /\ pc = "copied"
    /\ steps < MaxMutateCalls
    /\ \E name \in {"a", "b"} : MutateCall(name)
    /\ steps' = steps + 1
    /\ UNCHANGED <<config, pc>>
    /\ ArchiveUnchanged

NextChrom == ChromConstruct \/ ChromMutate

SpecChrom == InitChrom /\ [][NextChrom]_vars

\* C8: a Chromosome constructed without a source has 5 genes, and after any number of
\* mutate() calls its size is between 1 and MAX_EXERCISES_PER_SCHEDULE
Thm_C8 ==
    /\ last.op = "construct" => Chromosome_size(chroms["a"]) = 5
    /\ pc = "built" =>
          /\ 1 <= Chromosome_size(chroms["a"])
          /\ Chromosome_size(chroms["a"]) <= MAX_EXERCISES_PER_SCHEDULE

\* a deletion was drawn on a Chromosome of one gene, which still has its gene
Witness_C8 ==
    /\ pc = "built" /\ last.op = "mutate" /\ last.did = "delete"
    /\ last.size_before = 1
    /\ Chromosome_size(chroms["a"]) = 1

NextCopy == ChromConstruct \/ ChromCopyConstruct \/ CopyMutate

SpecCopy == InitChrom /\ [][NextCopy]_vars

\* the Chromosome a mutate() call was not made on
OtherOf(name) == IF name = "a" THEN "b" ELSE "a"

\* C5, as stated: after b = Chromosome(config, other=a), a mutate() call on either
\* leaves the gene values of the other as they were
Orig_C5 ==
    [][(pc = "copied" /\ last'.op = "mutate") =>
          GeneValues(genes', chroms'[OtherOf(last'.on)])
              = GeneValues(genes, chroms[OtherOf(last'.on)])]_vars

---------------------------------------------------------------------------
(* SpecSched: a Chromosome of a few genes, Schedules constructed from it    *)
(* and its genes' weekly masks decoded, without a mutation in between       *)

\* the random source sampled at SchedMaskSamples legal weekly masks
SchedMasks == {0, 128} \cup {MaskSeq[k] : k \in 1..SchedMaskSamples}

\* Config(80, 75, period) over the catalogue MET 2.5 / 8.0 after
\* set_exercise_duration_range(15, 30)
SchedConfig(period) ==
    Config_set_exercise_duration_range(Config_init(SmallRepo, 80000, 75000, period, 2), 15, 30)

InitSched ==
    /\ config \in {SchedConfig(period) : period \in 1..MaxPeriod}
    /\ \E size \in 1..MaxSchedGenes :
          /\ genes \in [1..size -> Gene_new(config, SchedMasks)]
          /\ chroms = [a |-> [k \in 1..size |-> k]]
    /\ NoArchive
    /\ pc = "sched"
    /\ steps = 0
    /\ last = [op |-> "init"]

\* Schedule(a, config)
SchedDecode ==
    /\ pc = "sched"
    /\ steps < MaxDecodes
    /\ \E x \in {Schedule(genes, chroms["a"], config)} :
          last' = [op |-> "decode", x |-> x]
    /\ steps' = steps + 1
    /\ UNCHANGED <<config, genes, chroms, pc>>
    /\ ArchiveUnchanged

\* Gene.exercise_days
Gene_exercise_days(g) == DaysFrom(Gene_schedule_to_base2(g.base10_schedule), 1)

\* a._chromosome[k].schedule_to_base(2) and .exercise_days()
GeneDays ==
    /\ pc = "sched"
    /\ \E k \in 1..Chromosome_size(chroms["a"]) :
          last' = [op |-> "days", mask |-> genes[chroms["a"][k]].base10_schedule,
                   base2 |-> Gene_schedule_to_base2(genes[chroms["a"][k]].base10_schedule),
                   days |-> Gene_exercise_days(genes[chroms["a"][k]])]
    /\ UNCHANGED <<config, genes, chroms, pc, steps>>
    /\ ArchiveUnchanged

\* format(v, '07b') of Python: the 7 binary digits of an int, ValueError for a str
\* ("Unknown format code 'b' for object of type 'str'")
Format_07b(v) ==
    IF v.type = "int"
    THEN [raised |-> "none", type |-> "str", chars |-> Gene_schedule_to_base2(v.val), val |-> 0]
    ELSE [raised |-> "ValueError", type |-> "none", chars |-> <<>>, val |-> 0]

\* Schedule.schedule_to_base: what the call returns or raises; _base2_schedule is the
\* str joined by _merge_binary_schedules
Schedule_schedule_to_base(x, base) ==
    IF base = 10
    THEN Format_07b([type |-> "str", chars |-> x.base2_schedule])
    ELSE IF base = 2
    THEN [raised |-> "none", type |-> "str", chars |-> x.base2_schedule, val |-> 0]
    ELSE [raised |-> "ValueError", type |-> "none", chars |-> <<>>, val |-> 0]

\* Schedule(a, config).schedule_to_base(base)
SchedToBase ==
    /\ pc = "sched"
    /\ \E x \in {Schedule(genes, chroms["a"], config)}, base \in {2, 8, 10} :
          last' = [op |-> "to_base", base |-> base, mask |-> x.base2_schedule,
                   result |-> Schedule_schedule_to_base(x, base)]
    /\ UNCHANGED <<config, genes, chroms, pc, steps>>
    /\ ArchiveUnchanged

\* Schedule(a, config).features() and MapElites._scale_features of the result
SchedFeatures ==
    /\ pc = "sched"
    /\ \E x \in {Schedule(genes, chroms["a"], config)} :
          \E raw \in {Schedule_features(x)} :
              last' = [op |-> "features", x |-> x, raw |-> raw,
                       dp |-> MapElites_scale_features(raw, config)]
    /\ UNCHANGED <<config, genes, chroms, pc, steps>>
    /\ ArchiveUnchanged

NextSched == SchedDecode \/ GeneDays \/ SchedToBase \/ SchedFeatures

SpecSched == InitSched /\ [][NextSched]_vars

DaySet(m, day) == (m \div (2 ^ (7 - day))) % 2 = 1

\* C15: position i of a Schedule's merged mask is 1 iff weekday bucket i holds at least
\* one Exercise, iff at least one gene's own weekly mask has that day set
Thm_C15 ==
    (pc = "sched" /\ last.op = "decode") =>
        \A day \in 1..7 :
            /\ last.x.base2_schedule[day] = 1 <=> last.x.schedule_as_list[day] # <<>>
            /\ last.x.base2_schedule[day] \in {0, 1}
            /\ last.x.schedule_as_list[day] # <<>> <=>
                  \E k \in 1..Chromosome_size(chroms["a"]) :
                      DaySet(genes[chroms["a"][k]].base10_schedule, day)

\* a Schedule whose merged mask is the union of two different masks and has a free day
Witness_C15 ==
    /\ pc = "sched" /\ last.op = "decode"
    /\ \A k \in 1..Len(last.x.exercises) :
          Gene_schedule_to_base2(last.x.exercises[k].base10_schedule) # last.x.base2_schedule
    /\ \E day \in 1..7 : last.x.base2_schedule[day] = 0

RECURSIVE ApplyUpdates(_, _, _)
\* the weight after the updates w := w - (0.00013 * MET * w * duration) / 60 for the
\* occurrences `occ` (positions in exercises) in order, in grams
ApplyUpdates(exercises, occ, w) ==
    IF occ = <<>> THEN w
    ELSE ApplyUpdates(exercises, Tail(occ),
             w - (13 * exercises[Head(occ)].met10 * w
                     * (exercises[Head(occ)].duration \div 15)) \div 4000000)

RECURSIVE Repeat(_, _)
\* n copies of a list, one after the other
Repeat(q, n) == IF n <= 0 THEN <<>> ELSE q \o Repeat(q, n - 1)

\* the occurrences of one week of Schedule x: weekday 0..6, within a day the order of
\* the genes
WeekOccurrences(x) ==
    Flatten([day \in 1..7 |->
                SelectSeq([k \in 1..Len(x.exercises) |-> k],
                          LAMBDA k : DaySet(x.exercises[k].base10_schedule, day))])

\* C18: the objective applies one update w := w - (0.00013 * MET * w * duration) / 60
\* per occurrence, week after week, weekday 0..6, within a day in insertion order; the
\* number of updates is P times the sum of the popcounts of the weekly masks; one
\* exercise on one day with P = 1 gives one subtraction from the initial weight
Thm_C18 ==
    (pc = "sched" /\ last.op = "decode") =>
        LET x == last.x
            updates == Repeat(WeekOccurrences(x), config.period)
        IN  /\ Len(updates) = config.period
                  * SumSeq([k \in 1..Len(x.exercises) |->
                              Cardinality({day \in 1..7 :
                                  DaySet(x.exercises[k].base10_schedule, day)})])
            /\ Schedule_fitness(x)
                  = Round2(Abs(config.target_weight
                               - ApplyUpdates(x.exercises, updates, config.init_weight)))
            /\ (Len(updates) = 1) =>
                  Schedule_fitness(x)
                    = Round2(Abs(config.target_weight
                        - (config.init_weight
                            - (13 * x.exercises[1].met10 * config.init_weight
                                 * (x.exercises[1].duration \div 15)) \div 4000000)))

\* Scenario C: w0 = 80, wt = 75, one week, one exercise of MET 8.0 for 30 minutes on one
\* day; the fitness is round(|75 - (80 - 0.0416)|, 2) = 4.96
Witness_C18 ==
    /\ pc = "sched" /\ last.op = "decode"
    /\ config.period = 1 /\ config.init_weight = 80000 /\ config.target_weight = 75000
    /\ Len(last.x.exercises) = 1
    /\ last.x.exercises[1].met10 = 80 /\ last.x.exercises[1].duration = 30
    /\ Len(WeekOccurrences(last.x)) = 1
    /\ Schedule_fitness(last.x) = 496

\* C19: for a mask m in [1, 127], schedule_to_base(2) is the 7-character binary numeral
\* of m, and exercise_days() lists, in week order, exactly the days whose character
\* (leftmost = Monday) is 1; 0b1010101 gives Monday, Wednesday, Friday, Sunday
Thm_C19 ==
    (pc = "sched" /\ last.op = "days") =>
        /\ last.mask \in 1..127
        /\ Len(last.base2) = 7
        /\ \A k \in 1..7 : last.base2[k] \in {0, 1}
        /\ SumSeq([k \in 1..7 |-> last.base2[k] * 2 ^ (7 - k)]) = last.mask
        /\ last.days = SelectSeq(WEEK, LAMBDA d : \E k \in 1..7 : WEEK[k] = d /\ last.base2[k] = 1)
        /\ last.mask = 85 => last.days = <<"Monday", "Wednesday", "Friday", "Sunday">>
        /\ last.mask = 64 => last.days = <<"Monday">>

\* Scenario B: the mask 0b1010101 has been decoded
Witness_C19 ==
    /\ pc = "sched" /\ last.op = "days" /\ last.mask = 85
    /\ last.base2 = <<1, 0, 1, 0, 1, 0, 1>>
    /\ last.days = <<"Monday", "Wednesday", "Friday", "Sunday">>

---------------------------------------------------------------------------
(* Spec: MapElites(config).run(init_times, total_evals).  One action is    *)
(* one pass of the loop body: an evaluation runs to its end before the     *)
(* next begins.                                                            *)

\* a two-entry catalogue (MET 3.0 and 4.0)
TwoRepo == <<30, 40>>

\* Config(80, 75, 1) over the two-entry catalogue after set_exercise_duration_range(15, 30),
\* with 2 bins per dimension
RunConfig ==
    Config_set_exercise_duration_range(Config_init(TwoRepo, 80000, 75000, 1, 2), 15, 30)

\* the initial Chromosomes the random source is sampled at, as lists of Gene values
InitSampleSeq ==
    << [k \in 1..5 |-> Gene(0, 15, 64)],
       [k \in 1..5 |-> IF k = 1 THEN Gene(1, 30, 127) ELSE Gene(0, 15, 64)],
       [k \in 1..5 |-> IF k <= 3 THEN Gene(1, 30, 127) ELSE Gene(0, 30, 64)],
       [k \in 1..5 |-> IF k <= 2 THEN Gene(1, 15, 127) ELSE Gene(1, 30, 64)],
       [k \in 1..5 |-> IF k = 5 THEN Gene(0, 15, 127) ELSE Gene(1, 15, 64)],
       [k \in 1..5 |-> Gene(1, 30, 127)] >>

InitSampleSet == {InitSampleSeq[k] : k \in 1..InitSamples}

\* Chromosome(self._config) in the INIT branch, for the sampled draws
InitDraws(h, cfg) ==
    UNION { Chromosome_new_sampled(h, cfg, SampleMasks, sample) : sample \in InitSampleSet }

\* the cells in a fixed order, as a list
CellSeq(b) ==
    [n \in 1..(b * b * b) |-> <<(n - 1) \div (b * b), ((n - 1) \div b) % b, (n - 1) % b>>]

RECURSIVE ArchiveRoots(_, _, _)
\* the _chromosome lists of the archived Schedules, in cell order from position n on
ArchiveRoots(mx, cells, n) ==
    IF n > Len(cells) THEN <<>>
    ELSE IF mx[cells[n]] = None THEN ArchiveRoots(mx, cells, n + 1)
         ELSE <<mx[cells[n]].chromosome>> \o ArchiveRoots(mx, cells, n + 1)

\* the archive with every _chromosome list renamed
RenameArchive(ren, mx) ==
    [cell \in DOMAIN mx |->
        IF mx[cell] = None THEN None
        ELSE [mx[cell] EXCEPT !.chromosome = RenameList(ren, mx[cell].chromosome)]]

\* the heap and the archive after an evaluation left heap h and archive mx
StoreArchive(h, mx) ==
    \E ren \in {Renaming(ArchiveRoots(mx, CellSeq(config.bins), 1))} :
        /\ genes' = RenameHeap(ren, h)
        /\ map_X' = RenameArchive(ren, mx)

\* MapElites._select_random: the Schedule object at data point `index` (1-based)
MapElites_select_random(mx, dps, index, b) == mx[CellOf(dps[index], b)]

\* a variant of the archive update in which a challenger that is turned away takes the
\* incumbent with it: the cell is reset to None and -1; Thm_C36 does not hold of it
ArchiveUpdate_evicting(h, mx, x, kind, parent) ==
    \E dp \in {MapElites_scale_features(Schedule_features(x), config)} :
        LET p == Schedule_fitness(x)
        IN  IF InBounds(dp, config.bins)
            THEN LET cell == CellOf(dp, config.bins)
                     curr_x == map_P[cell]
                 IN  IF Accepts(curr_x, p)
                     THEN /\ data_points' = RegisterPoint(data_points, dp)
                          /\ map_P' = [map_P EXCEPT ![cell] = p]
                          /\ \E stored \in {[mx EXCEPT ![cell] = x]} : StoreArchive(h, stored)
                          /\ elements_skipped' = elements_skipped
                          /\ last' = [op |-> kind, outcome |-> "inserted", dp |-> dp, p |-> p,
                                       parent |-> parent]
                     ELSE /\ map_P' = [map_P EXCEPT ![cell] = -1]
                          /\ \E emptied \in {[mx EXCEPT ![cell] = None]} :
                                StoreArchive(h, emptied)
                          /\ UNCHANGED <<data_points, elements_skipped>>
                          /\ last' = [op |-> kind, outcome |-> "rejected", dp |-> dp, p |-> p,
                                       parent |-> parent]
            ELSE /\ StoreArchive(h, mx)
                 /\ elements_skipped' = elements_skipped + 1
                 /\ UNCHANGED <<data_points, map_P>>
                 /\ last' = [op |-> kind, outcome |-> "skipped", dp |-> dp, p |-> p,
                                       parent |-> parent]

\* lines 100-110 of MapElites.run for the new Schedule x, heap h and archive mx
\* (mx is map_X after whatever the branch above did to the objects in it); `kind` and
\* `parent` (the cell the parent was read from) are only recorded in `last`
ArchiveUpdate(h, mx, x, kind, parent) ==
    \E dp \in {MapElites_scale_features(Schedule_features(x), config)} :
        LET p == Schedule_fitness(x)
        IN  IF InBounds(dp, config.bins)
            THEN LET cell == CellOf(dp, config.bins)
                     curr_x == map_P[cell]
                 IN  IF Accepts(curr_x, p)
                     THEN /\ data_points' = RegisterPoint(data_points, dp)
                          /\ map_P' = [map_P EXCEPT ![cell] = p]
                          /\ \E stored \in {[mx EXCEPT ![cell] = x]} : StoreArchive(h, stored)
                          /\ elements_skipped' = elements_skipped
                          /\ last' = [op |-> kind, outcome |-> "inserted", dp |-> dp, p |-> p,
                                       parent |-> parent]
                     ELSE /\ StoreArchive(h, mx)
                          /\ UNCHANGED <<data_points, map_P, elements_skipped>>
                          /\ last' = [op |-> kind, outcome |-> "rejected", dp |-> dp, p |-> p,
                                       parent |-> parent]
            ELSE /\ StoreArchive(h, mx)
                 /\ elements_skipped' = elements_skipped + 1
                 /\ UNCHANGED <<data_points, map_P>>
                 /\ last' = [op |-> kind, outcome |-> "skipped", dp |-> dp, p |-> p,
                                       parent |-> parent]

\* the configurations a run is started with: the two-entry catalogue with 2 bins, and
\* the one-entry catalogue with a single bin
RunConfigs == {RunConfig, ChromConfig}

\* a variant of the phase test that also takes evaluation init_times as an INIT
\* evaluation; Thm_C17 does not hold of it
InitPhase_inclusive(index, init_times) == index <= init_times

\* the test `i < init_times` of MapElites.run
InitPhase(index, init_times) == index < init_times

InitRun ==
    /\ config \in RunConfigs
    /\ genes = <<>>
    /\ chroms = <<>>
    /\ map_X = MapElites_init_map_X(config)
    /\ map_P = MapElites_init_map_P(config)
    /\ data_points = <<>>
    /\ i = 0
    /\ elements_skipped = 0
    /\ run_args \in [init_times : 0..MaxEvals, total_evals : 1..MaxEvals]
    /\ pc = "run"
    /\ steps = 0
    /\ last = [op |-> "start"]

\* a pass of the loop with i < init_times
EvalInit ==
    /\ pc = "run"
    /\ i < run_args.total_evals
    /\ InitPhase(i, run_args.init_times)
    /\ \E o \in InitDraws(genes, config) :
          \E x \in {Schedule(o.h, o.c, config)} : ArchiveUpdate(o.h, map_X, x, "INIT", <<>>)
    /\ i' = i + 1
    /\ UNCHANGED <<config, chroms, run_args, pc, steps>>

\* a variant of the in-place mutation in which the archived Schedule is decoded again
\* from its changed genotype; Thm_C37 does not hold of it
MutatedInPlace_decoded(mx, at, h, c) == [mx EXCEPT ![at] = Schedule(h, c, config)]

\* the archive after parent.mutate() left heap h and gene list c: the Schedule in cell
\* `at` has the changed genotype, its decoded fields are as they were
MutatedInPlace(mx, at, h, c) == [mx EXCEPT ![at].chromosome = c]

\* a pass of the loop with i >= init_times: parent = self._select_random();
\* parent.mutate(); x = Schedule(parent, self._config)
EvalExplore ==
    /\ pc = "run"
    /\ i < run_args.total_evals
    /\ ~InitPhase(i, run_args.init_times)
    /\ Len(data_points) > 0
    /\ \E index \in 1..Len(data_points) :
          LET at == CellOf(data_points[index], config.bins)
              parent == MapElites_select_random(map_X, data_points, index, config.bins)
          IN  \E o \in Chromosome_mutate(genes, parent.chromosome, config, SampleMasks) :
                  \E x \in {Schedule(o.h, o.c, config)},
                     mutated \in {MutatedInPlace(map_X, at, o.h, o.c)} :
                      ArchiveUpdate(o.h, mutated, x, "EXPLORE", at)
    /\ i' = i + 1
    /\ UNCHANGED <<config, chroms, run_args, pc, steps>>

\* a variant of the failing pass in which the failure is swallowed and the loop goes on
\* to the next evaluation; Thm_C32 does not hold of it
SelectFails_swallowed ==
    /\ pc = "run"
    /\ i < run_args.total_evals
    /\ ~InitPhase(i, run_args.init_times)
    /\ ~(Len(data_points) > 0)
    /\ i' = i + 1
    /\ last' = [op |-> "EXPLORE", outcome |-> "AssertionError"]
    /\ UNCHANGED <<config, genes, chroms, map_X, map_P, data_points, elements_skipped,
                   run_args, pc, steps>>

\* a pass with i >= init_times whose _select_random finds no data point: the assert fails
SelectFails ==
    /\ pc = "run"
    /\ i < run_args.total_evals
    /\ ~InitPhase(i, run_args.init_times)
    /\ ~(Len(data_points) > 0)
    /\ pc' = "aborted"
    /\ last' = [op |-> "EXPLORE", outcome |-> "AssertionError"]
    /\ UNCHANGED <<config, genes, chroms, map_X, map_P, data_points, i, elements_skipped,
                   run_args, steps>>

\* the loop ends and run returns
RunReturns ==
    /\ pc = "run"
    /\ i = run_args.total_evals
    /\ pc' = "done"
    /\ last' = [op |-> "return"]
    /\ UNCHANGED <<config, genes, chroms, map_X, map_P, data_points, i, elements_skipped,
                   run_args, steps>>

Next == EvalInit \/ EvalExplore \/ SelectFails \/ RunReturns

Spec == InitRun /\ [][Next]_vars

---------------------------------------------------------------------------
(* Properties of MapElites.run *)

\* a step that is one pass of the loop body reaching the archive update
Evaluated == pc = "run" /\ i' = i + 1

\* an observation of such a pass
IsEvaluation(l) == l.op \in {"INIT", "EXPLORE"} /\ l.outcome # "AssertionError"

\* what a Schedule holds from its construction on: the decoded Exercises, the weekday
\* buckets, the merged mask and the fitness (its genotype is the subject of C4)
Phenotype(x) == IF x = None THEN None ELSE [x EXCEPT !.chromosome = <<>>]

\* the cells that the coordinates of a list address
Addressed(dps, b) == { CellOf(dps[k], b) : k \in 1..Len(dps) }

Thm_C2 ==
    [][\A cell \in Cells(config.bins) :
          map_P[cell] >= 0 => (0 <= map_P'[cell] /\ map_P'[cell] <= map_P[cell])]_vars

\* an insertion has replaced the occupant of a cell that was registered before
Witness_C2 ==
    /\ IsEvaluation(last) /\ last.outcome = "inserted"
    /\ CellOf(last.dp, config.bins)
          \in Addressed(SubSeq(data_points, 1, Len(data_points) - 1), config.bins)

\* C3, as stated: in a run with init_times >= 1 every parent selection of the EXPLORE
\* branch succeeds (the archive it selects from is never empty)
Orig_C3 == run_args.init_times >= 1 => pc # "aborted"

\* C4, as stated: after an EXPLORE evaluation every Schedule that was in the archive
\* before it and is still in its cell has the gene sequence and the gene field values
\* it had
Orig_C4 ==
    [][(Evaluated /\ last'.op = "EXPLORE") =>
          \A cell \in Cells(config.bins) :
              (map_X[cell] # None /\ map_P'[cell] = map_P[cell]) =>
                  GeneValues(genes', map_X'[cell].chromosome)
                      = GeneValues(genes, map_X[cell].chromosome)]_vars

\* C6: every coordinate of _data_points addresses a cell, a cell is addressed by a
\* coordinate of the list iff it holds a Schedule, and it holds a Schedule iff its
\* stored fitness is >= 0
Thm_C6 ==
    /\ \A k \in 1..Len(data_points) : InBounds(data_points[k], config.bins)
    /\ \A cell \in Cells(config.bins) :
          /\ cell \in Addressed(data_points, config.bins) <=> map_X[cell] # None
          /\ map_X[cell] # None <=> map_P[cell] >= 0

\* two cells are occupied and registered while others are empty
Witness_C6 ==
    /\ Cardinality(Addressed(data_points, config.bins)) >= 2
    /\ \E cell \in Cells(config.bins) : map_X[cell] = None
    /\ IsEvaluation(last) /\ last.outcome = "inserted"

\* C7, as stated: every coordinate occurs at most once in _data_points
Orig_C7 ==
    \A j \in 1..Len(data_points) : \A k \in 1..Len(data_points) :
        data_points[j] = data_points[k] => j = k


\* the cells and the coordinate list are as they were (a Schedule compared by Phenotype)
ArchiveKept ==
    /\ map_P' = map_P
    /\ data_points' = data_points
    /\ \A cell \in Cells(config.bins) : Phenotype(map_X'[cell]) = Phenotype(map_X[cell])

\* C11, as stated: an evaluation with a computed bin index outside [1, bins] (0 and
\* negative indices included) is counted as skipped once and leaves every cell's
\* Schedule, every cell's fitness and the coordinate list as they were
Orig_C11 ==
    [][(Evaluated /\ \E n \in 1..3 : last'.dp[n] \notin 1..config.bins) =>
          /\ last'.outcome = "skipped"
          /\ elements_skipped' = elements_skipped + 1
          /\ ArchiveKept]_vars

\* C12, as stated: an evaluation whose three bin indices all lie in [1, bins] reaches
\* the archive-update comparison: it is inserted or rejected, never skipped
Orig_C12 ==
    [][(Evaluated /\ \A n \in 1..3 : last'.dp[n] \in 1..config.bins) =>
          /\ last'.outcome \in {"inserted", "rejected"}
          /\ elements_skipped' = elements_skipped]_vars

\* the occupied cells of the archive
Occupied == { cell \in Cells(config.bins) : map_X[cell] # None }

\* C13, as stated: with one bin, a one-entry catalogue, k_init = 1 and k_evals = 1 the
\* run ends with exactly one occupied cell, reached through the triple (1,1,1), and
\* with no skipped evaluation
Orig_C13 ==
    (/\ config.bins = 1 /\ Repo_size(config.repo) = 1
     /\ run_args = [init_times |-> 1, total_evals |-> 1]
     /\ pc = "done") =>
        /\ Cardinality(Occupied) = 1
        /\ data_points = << <<1, 1, 1>> >>
        /\ elements_skipped = 0

\* the Gene objects a Schedule's list refers to
GenesOf(x) == { x.chromosome[k] : k \in 1..Len(x.chromosome) }

\* a step in which an evaluation is begun: it runs to the archive update, or its
\* parent selection fails
Begun == pc = "run" /\ (i' = i + 1 \/ pc' = "aborted")

\* C17: evaluation i is an INIT evaluation (a brand-new Chromosome, no parent read from
\* the archive) iff i < init_times and an EXPLORE evaluation (its parent the Schedule
\* of an occupied cell) iff i >= init_times, and no INIT evaluation follows an EXPLORE
\* evaluation
Thm_C17 ==
    [][Begun =>
          /\ last'.op = "INIT" <=> i < run_args.init_times
          /\ last'.op = "EXPLORE" <=> i >= run_args.init_times
          /\ last.op = "EXPLORE" => last'.op = "EXPLORE"
          /\ (last'.op = "INIT" /\ last'.outcome = "inserted") =>
                \A other \in Cells(config.bins) \ {CellOf(last'.dp, config.bins)} :
                    map_X'[other] # None =>
                        GenesOf(map_X'[other])
                            \cap GenesOf(map_X'[CellOf(last'.dp, config.bins)]) = {}
          /\ (last'.op = "EXPLORE" /\ i' = i + 1) => map_X[last'.parent] # None]_vars

\* the first EXPLORE evaluation has followed the last of two INIT evaluations
Witness_C17 ==
    /\ run_args.init_times = 2 /\ i = 3
    /\ IsEvaluation(last) /\ last.op = "EXPLORE"

\* C16, as stated: the run never aborts; it returns only when the evaluation counter
\* has reached total_evals, and every evaluation has ended as inserted, rejected or
\* skipped
Orig_C16 ==
    /\ pc # "aborted"
    /\ pc = "done" => i = run_args.total_evals
    /\ IsEvaluation(last) => last.outcome \in {"inserted", "rejected", "skipped"}

---------------------------------------------------------------------------
(* SpecConfig: one Config and a sequence of setter calls, accepted or not   *)

\* Python values handed to a setter: a number with its type, or a string as the
\* sequence of its characters
PyInt(n) == [type |-> "int", val |-> n]
PyFloat(n) == [type |-> "float", val |-> n]
PyBool(b) == [type |-> "bool", val |-> IF b THEN 1 ELSE 0]
PyStr(chars) == [type |-> "str", chars |-> chars]

\* isinstance(v, int): bool is a subclass of int
IsInstanceInt(v) == v.type \in {"int", "bool"}

\* Config._range_check on Python values, step being the literal 15 or 1 of the
\* caller: the exception raised, or "none"
Config_range_check_raises(lo, hi, step) ==
    IF ~(hi.type = "int" /\ lo.type = "int") THEN "ValueError"
    ELSE IF hi.val <= lo.val THEN "ValueError"
    ELSE IF lo.val % step # 0 \/ hi.val % step # 0 THEN "ValueError"
    ELSE "none"

\* the outcome of a setter call: the exception raised and the Config left behind
CallOutcome(raised, cfg) == [raised |-> raised, cfg |-> cfg]

\* list(range(lo, hi + 1))
RECURSIVE ListRange(_, _)
ListRange(lo, hi) == IF hi < lo THEN <<>> ELSE <<lo>> \o ListRange(lo + 1, hi)

Call_set_exercise_duration_range(cfg, lo, hi) ==
    LET raised == Config_range_check_raises(lo, hi, 15)
    IN  CallOutcome(raised,
                IF raised = "none"
                THEN [cfg EXCEPT !.exercise_duration_range = Range(lo.val, hi.val + 1, 15)]
                ELSE cfg)

\* a variant of set_daily_duration_range that stores the range before it validates
\* the bounds; Thm_C20 does not hold of it
Call_set_daily_duration_range_unchecked(cfg, lo, hi) ==
    CallOutcome(Config_range_check_raises(lo, hi, 15),
            IF lo.type = "str" \/ hi.type = "str" THEN cfg
            ELSE [cfg EXCEPT !.daily_duration_range = Range(lo.val, hi.val + 1, 15)])

Call_set_daily_duration_range(cfg, lo, hi) ==
    LET raised == Config_range_check_raises(lo, hi, 15)
    IN  CallOutcome(raised,
                IF raised = "none"
                THEN [cfg EXCEPT !.daily_duration_range = Range(lo.val, hi.val + 1, 15)]
                ELSE cfg)

Call_set_daily_exercise_count_range(cfg, lo, hi, breaks) ==
    LET raised == Config_range_check_raises(lo, hi, 1)
    IN  CallOutcome(raised,
                IF raised = "none"
                THEN [cfg EXCEPT !.daily_exercise_count_range =
                          [kind |-> "list",
                           elems |-> (IF breaks THEN <<0>> ELSE <<>>)
                                         \o ListRange(lo.val, hi.val)]]
                ELSE cfg)

Call_set_total_evaluations(cfg, total_evals) ==
    LET raised == IF ~IsInstanceInt(total_evals) THEN "TypeError"
                  ELSE IF total_evals.val <= 0 THEN "ValueError"
                  ELSE "none"
    IN  CallOutcome(raised,
                IF raised = "none" THEN [cfg EXCEPT !.total_evals = total_evals] ELSE cfg)

Call_set_total_initialisations(cfg, init_times) ==
    LET raised == IF ~IsInstanceInt(init_times) THEN "TypeError"
                  ELSE IF init_times.val <= 0 THEN "ValueError"
                  ELSE "none"
    IN  CallOutcome(raised,
                IF raised = "none" THEN [cfg EXCEPT !.init_times = init_times] ELSE cfg)

Call_set_tolerable_days(cfg, tolerable_days) ==
    LET raised ==
            IF tolerable_days.type # "str" THEN "TypeError"
            ELSE IF \E k \in 1..Len(tolerable_days.chars) :
                        tolerable_days.chars[k] \notin {"0", "1"}
                 THEN "ValueError"
            ELSE IF Len(tolerable_days.chars) # 7 THEN "ValueError"
            ELSE "none"
    IN  CallOutcome(raised,
                IF raised = "none"
                THEN [cfg EXCEPT !.tolerable_days = tolerable_days.chars]
                ELSE cfg)

\* the values total_evals, init_times and tolerable_days start from: Config.__init__
\* reads them from Defaults, which does not define them, so any legal value is taken
StartEvals == {PyInt(3), PyInt(100)}
StartInits == {PyInt(1), PyInt(10)}
StartDays == {<<"1", "1", "1", "1", "1", "1", "1">>}

\* the bounds handed to the range setters
BoundArgs ==
    {PyInt(n) : n \in {0, 1, 15, 30}} \cup {PyInt(-15), PyFloat(15), PyBool(TRUE)}

\* the counts handed to set_total_evaluations and set_total_initialisations
CountArgs == {PyInt(-1), PyInt(0), PyInt(5), PyFloat(5), PyBool(TRUE), PyBool(FALSE)}

\* the arguments of set_tolerable_days
DaysArgs ==
    { PyStr(<<"1", "0", "1", "0", "1", "0", "1">>),
      PyStr(<<"1", "0", "1", "0", "1", "0">>),
      PyStr(<<"1", "0", "1", "0", "1", "0", "1", "1">>),
      PyStr(<<"1", "2", "1", "0", "1", "0", "1">>),
      PyStr(<<>>),
      PyInt(1010101) }

InitConfig ==
    /\ \E total_evals \in StartEvals, init_times \in StartInits, days \in StartDays :
          config = Config_init(SmallRepo, 80000, 75000, 1, 2) @@
                     [ daily_exercise_count_range |->
                           [kind |-> "range",
                            elems |-> ListRange(MAX_DAILY_EXERCISE_COUNT,
                                                MAX_DAILY_EXERCISE_COUNT)],
                       total_evals |-> total_evals,
                       init_times |-> init_times,
                       tolerable_days |-> days ]
    /\ genes = <<>>
    /\ chroms = <<>>
    /\ NoArchive
    /\ pc = "setters"
    /\ steps = 0
    /\ last = [op |-> "init"]

\* what a setter call leaves: the Config of its outcome, and the call observed
Called(setter, args, out) ==
    /\ pc = "setters"
    /\ steps < MaxSetterCalls
    /\ config' = out.cfg
    /\ last' = [op |-> "call", setter |-> setter, args |-> args, raised |-> out.raised]
    /\ steps' = steps + 1
    /\ UNCHANGED <<genes, chroms, pc>>
    /\ ArchiveUnchanged

SetExerciseDurationRange ==
    \E lo \in BoundArgs, hi \in BoundArgs :
        Called("set_exercise_duration_range", <<lo, hi>>,
               Call_set_exercise_duration_range(config, lo, hi))

SetDailyDurationRange ==
    \E lo \in BoundArgs, hi \in BoundArgs :
        Called("set_daily_duration_range", <<lo, hi>>,
               Call_set_daily_duration_range(config, lo, hi))

SetDailyExerciseCountRange ==
    \E lo \in BoundArgs, hi \in BoundArgs, breaks \in BOOLEAN :
        Called("set_daily_exercise_count_range", <<lo, hi>>,
               Call_set_daily_exercise_count_range(config, lo, hi, breaks))

SetTotalEvaluations ==
    \E total_evals \in CountArgs :
        Called("set_total_evaluations", <<total_evals>>,
               Call_set_total_evaluations(config, total_evals))

SetTotalInitialisations ==
    \E init_times \in CountArgs :
        Called("set_total_initialisations", <<init_times>>,
               Call_set_total_initialisations(config, init_times))

SetTolerableDays ==
    \E tolerable_days \in DaysArgs :
        Called("set_tolerable_days", <<tolerable_days>>,
               Call_set_tolerable_days(config, tolerable_days))

NextConfig ==
    \/ SetExerciseDurationRange
    \/ SetDailyDurationRange
    \/ SetDailyExerciseCountRange
    \/ SetTotalEvaluations
    \/ SetTotalInitialisations
    \/ SetTolerableDays

SpecConfig == InitConfig /\ [][NextConfig]_vars

\* the step each range setter requires of its bounds
RequiredStep(setter) == IF setter = "set_daily_exercise_count_range" THEN 1 ELSE 15

RangeSetters ==
    {"set_exercise_duration_range", "set_daily_duration_range",
     "set_daily_exercise_count_range"}

\* a range setter's bounds are not both integers, or hi <= lo, or one of them is not
\* divisible by the required step
BadBounds(l) ==
    LET lo == l.args[1]
        hi == l.args[2]
    IN  \/ lo.type # "int" \/ hi.type # "int"
        \/ hi.val <= lo.val
        \/ lo.val % RequiredStep(l.setter) # 0
        \/ hi.val % RequiredStep(l.setter) # 0

\* C20: a range setter called with non-integer bounds, with hi <= lo or with a bound
\* not divisible by the required step raises an error, and a call of any of the six
\* setters that raises leaves every configuration value as it was before the call
Thm_C20 ==
    [][(pc = "setters" /\ steps' = steps + 1) =>
          /\ (last'.setter \in RangeSetters /\ BadBounds(last')) =>
                 last'.raised # "none"
          /\ last'.raised # "none" => config' = config]_vars

\* a call was rejected on a Config that an earlier, accepted call had changed
Witness_C20 ==
    /\ pc = "setters" /\ steps = 2
    /\ last.op = "call" /\ last.raised # "none"
    /\ config.daily_duration_range # Defaults_daily_duration_range

---------------------------------------------------------------------------
(* Further properties of the Config setters, the Schedule and the archive  *)

\* C21, as stated: every range set_exercise_duration_range accepts holds only multiples
\* of 15 that are at least 15, holds lo and hi, and steps by 15
Orig_C21 ==
    (pc = "config" /\ last.op = "set_ok") =>
        /\ \A d \in RangeElems(config.exercise_duration_range) : d % 15 = 0 /\ d >= 15
        /\ last.lo \in RangeElems(config.exercise_duration_range)
        /\ last.hi \in RangeElems(config.exercise_duration_range)
        /\ config.exercise_duration_range.step = 15

\* C22, as stated: schedule_to_base(2) returns the merged weekly mask as a string of 7
\* binary characters, schedule_to_base(10) returns an integer whose 7-bit binary
\* representation is that string, and neither call fails
Orig_C22 ==
    (pc = "sched" /\ last.op = "to_base" /\ last.base \in {2, 10}) =>
        /\ last.result.raised = "none"
        /\ last.base = 2 =>
              /\ last.result.type = "str"
              /\ last.result.chars = last.mask /\ Len(last.result.chars) = 7
        /\ last.base = 10 =>
              /\ last.result.type = "int"
              /\ Gene_schedule_to_base2(last.result.val) = last.mask

\* MapElites.solutions: the Schedules of _map_X.flatten() that are not None
MapElites_solutions == [k \in 1..Len(CellSeq(config.bins)) |-> map_X[CellSeq(config.bins)[k]]]

\* MapElites.data_points(remove_duplicates=True): set(self._data_points)
MapElites_data_points == { data_points[k] : k \in 1..Len(data_points) }

\* C23, as stated: after a run, solutions() has as many Schedules as
\* data_points(remove_duplicates=True) has coordinates, and these coordinates address
\* pairwise distinct occupied cells
Orig_C23 ==
    pc = "done" =>
        /\ Cardinality({k \in 1..Len(MapElites_solutions) : MapElites_solutions[k] # None})
              = Cardinality(MapElites_data_points)
        /\ \A dp \in MapElites_data_points :
              /\ map_X[CellOf(dp, config.bins)] # None
              /\ \A other \in MapElites_data_points :
                    CellOf(other, config.bins) = CellOf(dp, config.bins) => other = dp

\* C24, as stated: at every point of a run, for every occupied cell, the fitness stored
\* in the cell is the stored Schedule's fitness() and is the objective value of
\* decoding the Schedule's current genotype again, whose weekday buckets are the
\* stored ones
Orig_C24 ==
    \A cell \in Cells(config.bins) :
        map_X[cell] # None =>
            \E again \in {Schedule(genes, map_X[cell].chromosome, config)} :
                /\ map_P[cell] = Schedule_fitness(map_X[cell])
                /\ map_P[cell] = Schedule_fitness(again)
                /\ map_X[cell].schedule_as_list = again.schedule_as_list

---------------------------------------------------------------------------
(* The weight simulation in the arithmetic of the code: Python floats are  *)
(* IEEE-754 doubles, every operation rounds its exact result to 53 bits,   *)
(* ties to even.  A double is a record [m, e] of value m * 2^e with        *)
(* 2^52 <= m < 2^53; m is a natural number held as a list of 13-bit limbs, *)
(* least significant first.  Only positive normal doubles occur.           *)

LimbBase == 2 ^ 13

RECURSIVE Trim(_)
\* a natural number without leading zero limbs
Trim(a) == IF a # <<>> /\ a[Len(a)] = 0 THEN Trim(SubSeq(a, 1, Len(a) - 1)) ELSE a

RECURSIVE CarryFrom(_, _, _)
\* the limbs of the number whose columns from k on are cols, carry c coming in
CarryFrom(cols, k, c) ==
    IF k > Len(cols)
    THEN IF c = 0 THEN <<>> ELSE <<c % LimbBase>> \o CarryFrom(cols, k, c \div LimbBase)
    ELSE <<(cols[k] + c) % LimbBase>> \o CarryFrom(cols, k + 1, (cols[k] + c) \div LimbBase)

\* a small natural number as limbs
BN(n) == CarryFrom(<<>>, 1, n)

RECURSIVE ColSum(_, _, _, _)
\* the sum of a[j] * b[k + 1 - j] over j >= n
ColSum(a, b, k, n) ==
    IF n > Len(a) \/ n > k THEN 0
    ELSE (IF k + 1 - n <= Len(b) THEN a[n] * b[k + 1 - n] ELSE 0) + ColSum(a, b, k, n + 1)

MulBN(a, b) ==
    IF a = <<>> \/ b = <<>> THEN <<>>
    ELSE Trim(CarryFrom([k \in 1..(Len(a) + Len(b)) |-> ColSum(a, b, k, 1)], 1, 0))

\* 2^s
Pow2BN(s) ==
    [k \in 1..(s \div 13 + 1) |->
        IF k = s \div 13 + 1 THEN 2 ^ (s % 13) ELSE 0]

ShlBN(a, s) == MulBN(a, Pow2BN(s))

RECURSIVE SmallBitLen(_)
SmallBitLen(n) == IF n = 0 THEN 0 ELSE 1 + SmallBitLen(n \div 2)

\* the number of bits of a trimmed number
BitLen(a) == IF a = <<>> THEN 0 ELSE 13 * (Len(a) - 1) + SmallBitLen(a[Len(a)])

\* bit k of a, bit 0 the least significant
Bit(a, k) ==
    IF k \div 13 + 1 > Len(a) THEN 0
    ELSE (a[k \div 13 + 1] \div (2 ^ (k % 13))) % 2

\* floor(a / 2^s)
ShrBN(a, s) ==
    LET q == s \div 13
        r == s % 13
    IN  IF q >= Len(a) THEN <<>>
        ELSE Trim([j \in 1..(Len(a) - q) |->
                      (a[j + q] \div (2 ^ r))
                      + (IF j + q + 1 <= Len(a)
                         THEN (a[j + q + 1] % (2 ^ r)) * (2 ^ (13 - r))
                         ELSE 0)])

\* a + 1
IncBN(a) == CarryFrom(a, 1, 1)

RECURSIVE BorrowFrom(_, _, _, _)
BorrowFrom(a, b, k, borrow) ==
    IF k > Len(a) THEN <<>>
    ELSE LET d == a[k] - (IF k <= Len(b) THEN b[k] ELSE 0) - borrow
         IN  <<IF d < 0 THEN d + LimbBase ELSE d>>
                 \o BorrowFrom(a, b, k + 1, IF d < 0 THEN 1 ELSE 0)

\* a - b for a >= b
SubBN(a, b) == Trim(BorrowFrom(a, b, 1, 0))

RECURSIVE DivFrom(_, _, _, _)
\* quotient and remainder of (rem * LimbBase^k + the k low limbs of a) by a small d
DivFrom(a, k, rem, d) ==
    IF k = 0 THEN [q |-> <<>>, r |-> rem]
    ELSE LET cur == rem * LimbBase + a[k]
             low == DivFrom(a, k - 1, cur % d, d)
         IN  [q |-> low.q \o <<cur \div d>>, r |-> low.r]

\* the double nearest to n * 2^e for a natural number n > 0, ties to even
RoundDouble(n, e) ==
    LET s == BitLen(n) - 53
    IN  IF s <= 0 THEN [m |-> ShlBN(n, -s), e |-> e + s]
        ELSE LET q == ShrBN(n, s)
                 up == /\ Bit(n, s - 1) = 1
                       /\ \/ \E k \in 0..(s - 2) : Bit(n, k) = 1
                          \/ Bit(q, 0) = 1
                 m == IF up THEN IncBN(q) ELSE q
             IN  IF BitLen(m) > 53 THEN [m |-> ShrBN(m, 1), e |-> e + s + 1]
                 ELSE [m |-> m, e |-> e + s]

\* float(n) for an int n > 0
Float_from_int(n) == RoundDouble(BN(n), 0)

\* x * y
Float_mul(x, y) == RoundDouble(MulBN(x.m, y.m), x.e + y.e)

\* x / n for an int n > 0: the quotient to 60 more bits, and one bit that tells whether
\* anything is left beyond them
Float_div_int(x, n) ==
    LET scaled == ShlBN(x.m, 60)
        d == DivFrom(scaled, Len(scaled), 0, n)
        q == Trim(d.q)
    IN  RoundDouble(IF d.r = 0 THEN ShlBN(q, 1) ELSE IncBN(ShlBN(q, 1)), x.e - 61)

\* x - y for x > y > 0
Float_sub(x, y) ==
    LET e0 == IF x.e < y.e THEN x.e ELSE y.e
    IN  RoundDouble(SubBN(ShlBN(x.m, x.e - e0), ShlBN(y.m, y.e - e0)), e0)

\* the double 0.00013 (0x1.10a137f38c543p-13)
Float_00013 == [m |-> <<1347, 6598, 1247, 532, 1>>, e |-> -65]

\* the double a decimal with one fractional digit (a MET value in tenths) or with three
\* (a weight in grams) is read as: the double nearest to the quotient
Float_from_decimal(n, scale) == Float_div_int(Float_from_int(n), scale)

\* WeightLossDifference._weight_loss: (0.00013 * exercise.met() * w * exercise.duration()) / 60
Float_weight_loss(e, w) ==
    Float_div_int(
        Float_mul(Float_mul(Float_mul(Float_00013, Float_from_decimal(e.met10, 10)), w),
                  Float_from_int(e.duration)),
        60)

RECURSIVE Float_after(_, _, _)
\* the loops over the days of a week and the exercises of a day: occ lists the
\* occurrences of the week in that order, as positions in exercises
Float_after(exercises, occ, w) ==
    IF occ = <<>> THEN w
    ELSE Float_after(exercises, Tail(occ),
                     Float_sub(w, Float_weight_loss(exercises[Head(occ)], w)))

RECURSIVE Float_after_weeks(_, _, _, _)
Float_after_weeks(exercises, occ, w, weeks) ==
    IF weeks <= 0 THEN w
    ELSE Float_after_weeks(exercises, occ, Float_after(exercises, occ, w), weeks - 1)

\* a variant of the simulation that takes the occurrences of a week in the order of
\* their MET values and durations, whatever their weekdays; Thm_C25 does not hold of it
Float_final_weight_sorted(cfg, exercises, week) ==
    Float_after_weeks(exercises,
                      SortSeq(Occurrences(week),
                              LAMBDA p, q : exercises[p].met10 * 1000 + exercises[p].duration
                                              < exercises[q].met10 * 1000 + exercises[q].duration),
                      Float_from_decimal(cfg.init_weight, 1000), cfg.period)

\* WeightLossDifference._final_weight
Float_final_weight(cfg, exercises, week) ==
    Float_after_weeks(exercises, Occurrences(week),
                      Float_from_decimal(cfg.init_weight, 1000), cfg.period)

---------------------------------------------------------------------------
(* SpecOrder: a Chromosome of two genes and a second one that holds the    *)
(* same genes in reverse order, or with their weekdays exchanged; both are *)
(* decoded and simulated                                                   *)

\* the weekly masks of the two genes: Monday, Tuesday, both
OrderMasks == {64, 32, 96}

InitOrder ==
    /\ config \in {SchedConfig(period) : period \in 1..MaxPeriod}
    /\ genes \in [1..2 -> Gene_new(config, OrderMasks)]
    /\ chroms = [a |-> <<1, 2>>]
    /\ NoArchive
    /\ pc = "order"
    /\ steps = 0
    /\ last = [op |-> "init"]

\* the genes of the second Chromosome
Rearranged(how) ==
    IF how = "reverse" THEN <<genes[2], genes[1]>>
    ELSE << [genes[1] EXCEPT !.base10_schedule = genes[2].base10_schedule],
            [genes[2] EXCEPT !.base10_schedule = genes[1].base10_schedule] >>

\* Schedule(a, config) and Schedule(b, config), and the final weight of each
Simulate(how) ==
    /\ pc = "order"
    /\ steps = 0
    /\ \E xa \in {Schedule(genes, chroms["a"], config)},
          xb \in {Schedule(Rearranged(how), <<1, 2>>, config)} :
          last' = [op |-> "simulate", how |-> how, xa |-> xa, xb |-> xb,
                   wa |-> Float_final_weight(config, xa.exercises, xa.schedule_as_list),
                   wb |-> Float_final_weight(config, xb.exercises, xb.schedule_as_list)]
    /\ steps' = 1
    /\ UNCHANGED <<config, genes, chroms, pc>>
    /\ ArchiveUnchanged

SimulateReversed == Simulate("reverse")

SimulateExchanged == Simulate("exchange")

NextOrder == SimulateReversed \/ SimulateExchanged

SpecOrder == InitOrder /\ [][NextOrder]_vars

\* the occurrences of a Schedule as a bag of (MET, duration) pairs
OccurrenceBag(x) ==
    LET occ == Occurrences(x.schedule_as_list)
        pairs == [k \in 1..Len(occ) |->
                     <<x.exercises[occ[k]].met10, x.exercises[occ[k]].duration>>]
    IN  [p \in {pairs[k] : k \in 1..Len(pairs)} |->
            Cardinality({k \in 1..Len(pairs) : pairs[k] = p})]

\* the weekday buckets of a Schedule with the (MET, duration) pair of each occurrence
\* in place of the Exercise reference
PlacedPairs(x) ==
    [day \in 1..7 |->
        [k \in 1..Len(x.schedule_as_list[day]) |->
            << x.exercises[x.schedule_as_list[day][k]].met10,
               x.exercises[x.schedule_as_list[day][k]].duration >>]]

\* MET 2.5 for 15 minutes and MET 8.0 for 15 minutes
LightGene(m) == Gene(0, 15, m)
HardGene(m) == Gene(1, 15, m)

\* C25: there are two Schedules of the same occurrences (same MET and duration values,
\* as often, same period) whose simulated final weights differ: over one week, MET 2.5
\* then MET 8.0 on Monday against MET 8.0 then MET 2.5 on Monday (within-day order),
\* and MET 2.5 on Monday, MET 8.0 on Tuesday against the two weekdays exchanged
Thm_C25 ==
    (/\ pc = "order" /\ last.op = "simulate" /\ config.period = 1
     /\ \/ last.how = "reverse" /\ genes = <<LightGene(64), HardGene(64)>>
        \/ last.how = "exchange" /\ genes = <<LightGene(64), HardGene(32)>>)
    => /\ OccurrenceBag(last.xa) = OccurrenceBag(last.xb)
       /\ PlacedPairs(last.xa) # PlacedPairs(last.xb)
       /\ last.wa # last.wb

\* the two within-day orders have been simulated and their final weights differ
Witness_C25 ==
    /\ pc = "order" /\ last.op = "simulate" /\ last.how = "reverse"
    /\ genes = <<LightGene(64), HardGene(64)>> /\ config.period = 1
    /\ OccurrenceBag(last.xa) = OccurrenceBag(last.xb)
    /\ last.wa # last.wb

---------------------------------------------------------------------------
(* Properties of the descriptors and their bins *)

\* C26, as stated: each descriptor v with range [range_min, range_max] (the start and
\* the stop of its range in _scale_features) is mapped to
\* floor((v - range_min) / ((range_max + 1 - range_min) / bins)) + 1, below the range
\* and above it as well
Orig_C26 ==
    (pc = "sched" /\ last.op = "features") =>
        \A n \in 1..3 :
            LET rng == FeatureRanges(config)[n]
                v == last.raw[n]
            IN  last.dp[n] =
                    (((v.num - rng.start * v.den) * config.bins)
                        \div (v.den * (rng.stop + 1 - rng.start))) + 1

\* the sum of f over the occurrences of the week of Schedule x
OccurrenceSum(x, f(_)) ==
    LET occ == Occurrences(x.schedule_as_list)
    IN  SumSeq([k \in 1..Len(occ) |-> f(x.exercises[occ[k]])])

\* whether fraction r is num / den
FracIs(r, num, den) == r.num * den = num * r.den

\* C27, as stated: the first two descriptors are the sum of MET (of duration) over the
\* occurrences of the week divided by the number of occurrences
Orig_C27 ==
    (pc = "sched" /\ last.op = "features") =>
        LET n == Len(Occurrences(last.x.schedule_as_list))
        IN  /\ FracIs(last.raw[1], OccurrenceSum(last.x, LAMBDA e : e.met10), 10 * n)
            /\ FracIs(last.raw[2], OccurrenceSum(last.x, LAMBDA e : e.duration), n)

\* C28: the third descriptor is the sum over the Exercises (one per gene) of the
\* popcount of the Exercise's own weekly mask, divided by the number of Exercises; two
\* Schedules with the same merged mask can differ in it
Thm_C28 ==
    (pc = "sched" /\ last.op = "features") =>
        /\ Len(last.x.exercises) = Chromosome_size(chroms["a"])
        /\ FracIs(last.raw[3],
                  SumSeq([k \in 1..Len(last.x.exercises) |->
                             Cardinality({day \in 1..7 :
                                 DaySet(genes[chroms["a"][k]].base10_schedule, day)})]),
                  Len(last.x.exercises))

\* features() has been taken of a Schedule of two genes of masks 127 and 64: the
\* merged mask has 7 days, the third descriptor is (7 + 1) / 2 = 4
Witness_C28 ==
    /\ pc = "sched" /\ last.op = "features"
    /\ Len(last.x.exercises) = 2
    /\ {genes[chroms["a"][k]].base10_schedule : k \in 1..2} = {127, 64}
    /\ SumSeq(last.x.base2_schedule) = 7
    /\ FracIs(last.raw[3], 4, 1)

\* C29: decoding puts the Exercise of gene k in weekday bucket i exactly once iff bit i
\* of the gene's weekly mask is 1 (most significant bit = day 0) and in no other
\* bucket, and within a bucket the Exercises are in the order of their genes
Thm_C29 ==
    (pc = "sched" /\ last.op = "decode") =>
        /\ Len(last.x.exercises) = Chromosome_size(chroms["a"])
        /\ \A day \in 1..7 :
              LET bucket == last.x.schedule_as_list[day]
              IN  /\ \A k \in 1..Len(last.x.exercises) :
                        Cardinality({j \in 1..Len(bucket) : bucket[j] = k})
                            = IF DaySet(genes[chroms["a"][k]].base10_schedule, day)
                              THEN 1 ELSE 0
                  /\ \A j \in 1..Len(bucket) : bucket[j] \in 1..Len(last.x.exercises)
                  /\ \A j \in 1..(Len(bucket) - 1) : bucket[j] < bucket[j + 1]

\* a Schedule has been decoded from two genes of masks 85 and 127: they share Monday,
\* and Tuesday holds the second only
Witness_C29 ==
    /\ pc = "sched" /\ last.op = "decode"
    /\ Chromosome_size(chroms["a"]) = 2
    /\ genes[chroms["a"][1]].base10_schedule = 85
    /\ genes[chroms["a"][2]].base10_schedule = 127
    /\ last.x.schedule_as_list[1] = <<1, 2>>
    /\ last.x.schedule_as_list[2] = <<2>>


---------------------------------------------------------------------------
(* Properties of one Chromosome.mutate() call, on the field values of the  *)
(* genes of the Chromosome before and after it                              *)

\* the list without its member at position k
WithoutAt(vs, k) == [j \in 1..(Len(vs) - 1) |-> IF j < k THEN vs[j] ELSE vs[j + 1]]

\* the number of fields in which two Genes differ
FieldsApart(g1, g2) ==
    Cardinality({f \in {"exercise_index", "duration", "base10_schedule"} : g1[f] # g2[f]})

\* one member differs, in one field
OneGeneAltered(before, after) ==
    /\ Len(after) = Len(before)
    /\ \E k \in 1..Len(before) :
          /\ FieldsApart(before[k], after[k]) = 1
          /\ \A j \in 1..Len(before) : j # k => after[j] = before[j]

\* one member was appended at the end
OneGeneAppended(before, after) ==
    /\ Len(after) = Len(before) + 1
    /\ SubSeq(after, 1, Len(before)) = before

\* one member was removed
OneGeneRemoved(before, after) ==
    /\ Len(after) = Len(before) - 1
    /\ \E k \in 1..Len(before) : after = WithoutAt(before, k)

\* the effect of a.mutate() on the gene values `before`
MutateEffect(before, after, did) ==
    /\ \/ after = before
       \/ OneGeneAltered(before, after) /\ did = "alter"
       \/ /\ OneGeneAppended(before, after) /\ did = "add"
          /\ Len(before) < MAX_EXERCISES_PER_SCHEDULE
       \/ /\ OneGeneRemoved(before, after) /\ did = "delete"
          /\ Len(before) > 1
    /\ did = "none" => after = before
    /\ (did = "add" /\ Len(before) < MAX_EXERCISES_PER_SCHEDULE) =>
          OneGeneAppended(before, after)
    /\ (did = "add" /\ Len(before) = MAX_EXERCISES_PER_SCHEDULE) => after = before
    /\ (did = "delete" /\ Len(before) > 1) => OneGeneRemoved(before, after)
    /\ (did = "delete" /\ Len(before) = 1) => after = before

\* C30: one mutate() call leaves the gene sequence unchanged, or changes one gene in one
\* field at unchanged size, or appends one gene at the end with the others in place
\* (only below MAX_EXERCISES_PER_SCHEDULE), or removes one gene with the others in
\* order (only above size 1); add at the maximum and delete at size 1 change nothing
Thm_C30 ==
    [][(pc = "built" /\ last'.op = "mutate") =>
          MutateEffect(GeneValues(genes, chroms["a"]),
                       GeneValues(genes', chroms'["a"]), last'.did)]_vars

\* an addition was drawn on a Chromosome one below the maximum, which is now full
Witness_C30 ==
    /\ pc = "built" /\ last.op = "mutate" /\ last.did = "add"
    /\ last.size_before = MAX_EXERCISES_PER_SCHEDULE - 1
    /\ Chromosome_size(chroms["a"]) = MAX_EXERCISES_PER_SCHEDULE

---------------------------------------------------------------------------
(* Properties of the draw of Chromosome.mutate                              *)

\* the draws of `chance` on which mutate() applies an operator
ApplyingDraws(cfg) == {chance \in ChanceDraws : Chromosome_mutate_applies(cfg, chance)}

\* C31, as stated: of the 100 draws of mutate() exactly 100 x rate apply an operator
\* (the rate is kept in hundredths)
Orig_C31 ==
    (pc = "built" /\ last.op = "mutate") =>
        Cardinality(ApplyingDraws(config)) = config.mutation_rate

---------------------------------------------------------------------------
(* Further properties of MapElites.run: the failing selection, the archive *)
(* cells over a run                                                         *)

\* the next pass of the loop is an EXPLORE pass and no cell is occupied
SelectsFromEmpty ==
    /\ pc = "run"
    /\ i < run_args.total_evals
    /\ ~InitPhase(i, run_args.init_times)
    /\ Occupied = {}

\* C32: a selection while no cell is occupied ends the run with a failure at that
\* evaluation and leaves map_X, map_P and _data_points as they were; an EXPLORE
\* evaluation that reached the archive update read its parent from an occupied cell
Thm_C32 ==
    [][/\ SelectsFromEmpty =>
             /\ pc' = "aborted"
             /\ last' = [op |-> "EXPLORE", outcome |-> "AssertionError"]
             /\ i' = i
             /\ UNCHANGED <<map_X, map_P, data_points>>
       /\ (last'.op = "EXPLORE" /\ IsEvaluation(last')) =>
             /\ Occupied # {}
             /\ last'.parent \in Occupied]_vars

\* a run whose only INIT evaluation was skipped has failed at evaluation 1
Witness_C32 ==
    /\ pc = "aborted"
    /\ run_args.init_times = 1 /\ i = 1 /\ elements_skipped = 1
    /\ Occupied = {}

\* an entry of _map_P in hundredths: the empty sentinel float(-1) is -1.00
PerfValue(v) == IF v < 0 THEN -100 ELSE v

\* MapElites.performances(scale=False), in hundredths: a copy of _map_P in which every
\* entry below 0 is int(max_P + 1)
MapElites_performances(mp, b) ==
    LET max_P == Max({PerfValue(mp[cell]) : cell \in Cells(b)})
    IN  [cell \in Cells(b) |->
            IF PerfValue(mp[cell]) < 0 THEN TruncDiv(max_P + 100, 100) * 100
            ELSE PerfValue(mp[cell])]

\* C33, as stated: in the grid of performances(scale=False) an occupied cell keeps its
\* stored fitness and an empty cell holds the highest stored fitness + 1, which is
\* greater than the fitness of every occupied cell
Orig_C33 ==
    (pc = "done" /\ Occupied # {}) =>
        \E grid \in {MapElites_performances(map_P, config.bins)} :
            \A cell \in Cells(config.bins) :
                IF cell \in Occupied
                THEN grid[cell] = map_P[cell]
                ELSE /\ grid[cell] = Max({map_P[c] : c \in Occupied}) + 100
                     /\ \A c \in Occupied : grid[cell] > map_P[c]

---------------------------------------------------------------------------
(* SpecRace: the archive update of MapElites.run (lines 102-108) carried   *)
(* out by two evaluations on one cell.  An evaluation reads the incumbent  *)
(* fitness into its local curr_x, then tests it and writes.  In mode       *)
(* "serial" an evaluation begins only when no other is between its read    *)
(* and its write, as in the loop of run; in mode "interleaved" the steps   *)
(* of the two are scheduled freely.  A Schedule is held as the evaluation  *)
(* that built it and its fitness.                                          *)

Workers == {1, 2}

\* the fitness values the two evaluations offer, and the incumbent's (-1: empty cell)
RaceOffers == {480, 490, 496}
RaceIncumbents == {-1, 485, 500}

\* the cell both evaluations address, and the triple they address it by
RaceCell == <<0, 0, 0>>
RaceTriple == <<0, 0, 0>>

\* a variant of the condition to begin in which evaluations never wait for one another;
\* Thm_C34 does not hold of it
MayBegin_unsynchronized(w) == TRUE

\* whether evaluation w may begin its update: in the loop `for i in range(total_evals)`
\* the body of one pass ends before the next pass begins
MayBegin(w) ==
    \/ run_args.mode = "interleaved"
    \/ \A other \in Workers \ {w} : pc[other] # "read"

InitRace ==
    /\ config = ChromConfig
    /\ genes = <<>>
    /\ chroms = <<>>
    /\ \E incumbent \in RaceIncumbents :
          /\ map_P = [cell \in Cells(config.bins) |-> incumbent]
          /\ map_X = [cell \in Cells(config.bins) |->
                        IF incumbent < 0 THEN None
                        ELSE [evaluation |-> 0, fitness |-> incumbent]]
          /\ data_points = IF incumbent < 0 THEN <<>> ELSE <<RaceTriple>>
    /\ i = 0
    /\ elements_skipped = 0
    /\ run_args \in [mode : {"serial", "interleaved"}, offers : [Workers -> RaceOffers]]
    /\ pc = [w \in Workers |-> "begin"]
    /\ steps = 0
    /\ last = [op |-> "race", curr_x |-> <<>>]

\* curr_x = self._map_P[j][k][l]
RaceRead ==
    \E w \in Workers :
        /\ pc[w] = "begin"
        /\ MayBegin(w)
        /\ last' = [last EXCEPT !.curr_x = (w :> map_P[CellOf(RaceTriple, config.bins)]) @@ @]
        /\ pc' = [pc EXCEPT ![w] = "read"]
        /\ UNCHANGED <<config, genes, chroms, map_X, map_P, data_points, i,
                       elements_skipped, run_args, steps>>

\* if curr_x < 0 or curr_x > p: append dp, write p to _map_P and x to _map_X
RaceWrite ==
    \E w \in Workers :
        /\ pc[w] = "read"
        /\ LET p == run_args.offers[w]
               cell == CellOf(RaceTriple, config.bins)
           IN  IF Accepts(last.curr_x[w], p)
               THEN /\ data_points' = RegisterPoint(data_points, RaceTriple)
                    /\ map_P' = [map_P EXCEPT ![cell] = p]
                    /\ map_X' = [map_X EXCEPT ![cell] = [evaluation |-> w, fitness |-> p]]
               ELSE UNCHANGED <<data_points, map_P, map_X>>
        /\ pc' = [pc EXCEPT ![w] = "done"]
        /\ i' = i + 1
        /\ UNCHANGED <<config, genes, chroms, elements_skipped, run_args, steps, last>>

NextRace == RaceRead \/ RaceWrite

SpecRace == InitRace /\ [][NextRace]_vars

\* the lowest of a set of fitness values
Lowest(S) == CHOOSE m \in S : \A n \in S : m <= n

\* the fitness values offered to the cell: the two challengers' and the incumbent's
OfferedToCell(incumbent) ==
    {run_args.offers[w] : w \in Workers} \cup (IF incumbent < 0 THEN {} ELSE {incumbent})

RaceOver == \A w \in Workers : pc[w] = "done"

\* C34: when each evaluation runs to its end before the next begins, the cell ends with
\* the lowest fitness offered to it; the cell ends with another fitness only when the
\* steps of the two evaluations were interleaved, and then it holds the fitness of one
\* of the challengers, whose write overwrote the better one
Thm_C34 ==
    RaceOver =>
        \E incumbent \in RaceIncumbents :
            /\ \A w \in Workers : last.curr_x[w] = incumbent \/ last.curr_x[w] \in RaceOffers
            /\ \E w \in Workers : last.curr_x[w] = incumbent
            /\ map_P[RaceCell] \in OfferedToCell(incumbent)
            /\ map_X[RaceCell].fitness = map_P[RaceCell]
            /\ run_args.mode = "serial" => map_P[RaceCell] = Lowest(OfferedToCell(incumbent))
            /\ map_P[RaceCell] # Lowest(OfferedToCell(incumbent)) =>
                  /\ run_args.mode = "interleaved"
                  /\ \A w \in Workers : last.curr_x[w] = incumbent
                  /\ \E w \in Workers : map_P[RaceCell] = run_args.offers[w]

\* a lost update: both evaluations read the empty cell, and the cell ends with the worse
\* of the two challengers
Witness_C34 ==
    /\ RaceOver
    /\ run_args.mode = "interleaved"
    /\ run_args.offers[1] = 480 /\ run_args.offers[2] = 496
    /\ \A w \in Workers : last.curr_x[w] = -1
    /\ map_P[RaceCell] = 496
    /\ map_X[RaceCell] = [evaluation |-> 2, fitness |-> 496]

---------------------------------------------------------------------------
(* SpecFit: runs of MapElites of at most two evaluations for target        *)
(* weights above, at and below the weight the schedules end at             *)

\* largest total_evals of the runs of SpecFit
MaxFitEvals == 2

\* target weights in grams: below every final weight, within 5 g of the final weight of
\* the first sampled Chromosome, above the initial weight
FitTargets == {75000, 79960, 85000}

InitFit ==
    /\ config \in {[RunConfig EXCEPT !.target_weight = target] : target \in FitTargets}
    /\ genes = <<>>
    /\ chroms = <<>>
    /\ map_X = MapElites_init_map_X(config)
    /\ map_P = MapElites_init_map_P(config)
    /\ data_points = <<>>
    /\ i = 0
    /\ elements_skipped = 0
    /\ run_args \in [init_times : 0..MaxFitEvals, total_evals : 1..MaxFitEvals]
    /\ pc = "run"
    /\ steps = 0
    /\ last = [op |-> "start"]

SpecFit == InitFit /\ [][Next]_vars

\* C35: every fitness the objective produces is >= 0, so a cell holds a Schedule exactly
\* when its stored fitness is not below 0, and the only stored value below 0 is the
\* sentinel -1 of an empty cell
Thm_C35 ==
    /\ IsEvaluation(last) => last.p >= 0
    /\ \A cell \in Cells(config.bins) :
          /\ map_X[cell] # None => Schedule_fitness(map_X[cell]) >= 0
          /\ map_X[cell] # None <=> ~(map_P[cell] < 0)
          /\ map_P[cell] < 0 => map_P[cell] = -1

\* a cell holds a Schedule of fitness 0, and a second Schedule of fitness 0 offered to
\* the cell was turned away: the cell was not taken for an empty one
Witness_C35 ==
    /\ IsEvaluation(last) /\ last.outcome = "rejected" /\ last.p = 0
    /\ map_P[CellOf(last.dp, config.bins)] = 0
    /\ map_X[CellOf(last.dp, config.bins)] # None

\* the number of occupied cells
OccupiedCount == Cardinality(Occupied)

\* C36: a cell that holds a Schedule holds one after every later step of the run, its
\* stored fitness never goes back to the empty sentinel, and the number of occupied
\* cells never decreases
Thm_C36 ==
    [][/\ \A cell \in Cells(config.bins) :
             /\ map_X[cell] # None => map_X'[cell] # None
             /\ ~(map_P[cell] < 0) => ~(map_P'[cell] < 0)
       /\ OccupiedCount' >= OccupiedCount]_vars

\* two cells are occupied and the third evaluation, offered to an occupied cell, was
\* turned away
Witness_C36 ==
    /\ i = 3 /\ IsEvaluation(last) /\ last.outcome = "rejected"
    /\ OccupiedCount = 2
    /\ map_X[CellOf(last.dp, config.bins)] # None

\* the triple _scale_features gives for the stored Schedule's features()
OwnTriple(x) == MapElites_scale_features(Schedule_features(x), config)

\* C37: for every occupied cell, the triple that _scale_features gives for the stored
\* Schedule's features() raises no IndexError and addresses that cell
Thm_C37 ==
    \A cell \in Cells(config.bins) :
        map_X[cell] # None =>
            \E dp \in {OwnTriple(map_X[cell])} :
                /\ InBounds(dp, config.bins)
                /\ CellOf(dp, config.bins) = cell

\* an archived Schedule was mutated in place (it has lost a gene since it was decoded),
\* its child went to another cell, and it still sits in the cell of its own triple
Witness_C37 ==
    /\ IsEvaluation(last) /\ last.op = "EXPLORE" /\ last.outcome = "inserted"
    /\ CellOf(last.dp, config.bins) # last.parent
    /\ map_X[last.parent] # None
    /\ Len(map_X[last.parent].chromosome) < Len(map_X[last.parent].exercises)
    /\ CellOf(OwnTriple(map_X[last.parent]), config.bins) = last.parent

\* the Schedule of a cell is what it was: the cell is empty as before, or holds a
\* Schedule with the decoded fields, the gene sequence and the gene field values it had
SameSchedule(cell) ==
    IF map_X[cell] = None THEN map_X'[cell] = None
    ELSE /\ map_X'[cell] # None
         /\ Phenotype(map_X'[cell]) = Phenotype(map_X[cell])
         /\ GeneValues(genes', map_X'[cell].chromosome)
               = GeneValues(genes, map_X[cell].chromosome)

\* C38, as stated: an evaluation leaves the Schedule and the fitness of every cell other
\* than the one its triple addresses as they were, and a rejected or skipped evaluation
\* leaves those of every cell as they were
Orig_C38 ==
    [][Evaluated =>
          \A cell \in Cells(config.bins) :
              (cell # CellOf(last'.dp, config.bins)
                   \/ last'.outcome \in {"rejected", "skipped"}) =>
                  /\ map_P'[cell] = map_P[cell]
                  /\ SameSchedule(cell)]_vars

---------------------------------------------------------------------------
(* SpecScale: MapElites._scale_features applied to descriptor values on a  *)
(* grid that runs from below each range to above it, for 1..MaxBins bins    *)

\* largest number of bins per dimension
MaxBins == 4
\* the descriptor values are the multiples of 1 / ScaleDen
ScaleDen == 2

\* the values of descriptor n handed to _scale_features: from more than a unit below
\* the start of its range to more than a unit above its stop
ScaleInputs(rng) ==
    {Frac(num, ScaleDen) :
        num \in (ScaleDen * (rng.start - 1) - 1)..(ScaleDen * (rng.stop + 1) + 1)}

InitScale ==
    /\ config \in {Config_init(SmallRepo, 80000, 75000, 1, bins) : bins \in 1..MaxBins}
    /\ genes = <<>>
    /\ chroms = <<>>
    /\ NoArchive
    /\ pc = "scale"
    /\ steps = 0
    /\ last = [op |-> "init"]

\* one call self._scale_features(raw) for a raw triple whose n-th component is v, the
\* other two being the starts of their ranges
ScaleOne(n) ==
    /\ pc = "scale"
    /\ steps = 0
    /\ \E v \in ScaleInputs(FeatureRanges(config)[n]) :
          \E raw \in {[k \in 1..3 |->
                         IF k = n THEN v ELSE Frac(FeatureRanges(config)[k].start, 1)]} :
              last' = [op |-> "scale", on |-> n, raw |-> raw,
                       dp |-> MapElites_scale_features(raw, config)]
    /\ steps' = 1
    /\ UNCHANGED <<config, genes, chroms, pc>>
    /\ ArchiveUnchanged

ScaleMet == ScaleOne(1)
ScaleDuration == ScaleOne(2)
ScaleFrequency == ScaleOne(3)

NextScale == ScaleMet \/ ScaleDuration \/ ScaleFrequency

SpecScale == InitScale /\ [][NextScale]_vars

\* whether the fraction v lies in [lo, hi]
FracWithin(v, lo, hi) == lo * v.den <= v.num /\ v.num <= hi * v.den

\* C39: a descriptor value inside its range (from the start to the stop of the range
\* _scale_features reads) gets a bin index in 1..bins, for every number of bins; an
\* index outside 1..bins comes from a value outside the range
Thm_C39 ==
    (pc = "scale" /\ last.op = "scale") =>
        \A n \in 1..3 :
            LET rng == FeatureRanges(config)[n]
            IN  /\ FracWithin(last.raw[n], rng.start, rng.stop)
                      => last.dp[n] \in 1..config.bins
                /\ last.dp[n] \notin 1..config.bins
                      => ~FracWithin(last.raw[n], rng.start, rng.stop)

\* the mean duration at the stop of its range is put in the last of three bins
Witness_C39 ==
    /\ pc = "scale" /\ last.op = "scale" /\ last.on = 2
    /\ config.bins = 3
    /\ FracIs(last.raw[2], config.daily_duration_range.stop, 1)
    /\ last.dp[2] = 3
=============================================================================
